---- MODULE Spec2Model ----
(***************************************************************************)
(* A model of the largetable storage engine: the memtable (mtable.rs),     *)
(* the disktables with their header/data files (dtable.rs), the commit log *)
(* and the engine that coordinates them (base.rs).                         *)
(*                                                                         *)
(* Row keys and column names are small positive integers (compared as the  *)
(* code compares strings), values are small positive integers standing for *)
(* byte strings.  A file is modelled by its contents; a data file is the   *)
(* sequence of the protobuf field records written to it, each with its     *)
(* length in bytes, so that reading a byte region of the file is what the  *)
(* code does with seek / take / parse_from_reader.                         *)
(***************************************************************************)
EXTENDS Integers, Sequences, FiniteSets, TLC

\* ------------------------------------------------------------------ bounds
MaxWrites == 2      \* writes (insert/update calls) in one behaviour
MaxRows == 3        \* writes in one behaviour of the three-row specification
MaxIndex == 4       \* the largest disktable_index a behaviour may reach
MaxRestarts == 1    \* process restarts in one behaviour
MaxTime == 3        \* the read timestamp that stands for u64::MAX
MaxLen == 3         \* entries of a column handed to the column reader
MaxHandlers == 2    \* request handlers running at once
MaxRequests == 3    \* requests the server takes the lock for

Keys == {1, 2, 3}           \* row keys
Cols == {1, 2}              \* column names
Timestamps == {0, 1, 2}     \* write timestamps
QueryTimes == 0..MaxTime    \* read timestamps

None == "None"
NotFound == "NotFound"
IoError == "IoError"
AlreadyExists == "AlreadyExists"

\* ------------------------------------------------------------ small helpers
Min(a, b) == IF a <= b THEN a ELSE b

SetMin(S) == CHOOSE x \in S : \A y \in S : x <= y

\* the elements of a finite set of integers in ascending order (BTreeMap order)
RECURSIVE SortedSeq(_)
SortedSeq(S) ==
    IF S = {} THEN <<>> ELSE <<SetMin(S)>> \o SortedSeq(S \ {SetMin(S)})

RECURSIVE SumSeq(_)
SumSeq(s) == IF s = <<>> THEN 0 ELSE Head(s) + SumSeq(Tail(s))

RECURSIVE Flatten(_)
Flatten(ss) == IF ss = <<>> THEN <<>> ELSE Head(ss) \o Flatten(Tail(ss))

InsertAt(s, i, e) == SubSeq(s, 1, i) \o <<e>> \o SubSeq(s, i + 1, Len(s))

\* ------------------------------------------------------------------ query.rs
\* MUpdate {key, value}; key and value lengths in bytes
KeyLen(k) == 1
ValueLen(v) == 1

MUpdate(key, value) == [key |-> key, value |-> value]

\* enum QueryResult
QueryResults ==
    {"NotImplemented", "RowNotFound", "RowAlreadyExists", "InternalError", "Done",
     "PartialCommit", "NetworkError", "Data"}

\* a size that counts the value and forgets the column name
MUpdateSizeOfValue(u) == ValueLen(u.value)

MUpdateSize(u) == ValueLen(u.value) + KeyLen(u.key)

\* ----------------------------------------------------------------- mtable.rs
DEntry(timestamp, value) == [timestamp |-> timestamp, value |-> value]

\* the last update of a column in an update list (collect() into a BTreeMap
\* keeps the last value of a repeated key)
LastUpdateOf(updates, c) ==
    updates[CHOOSE i \in 1..Len(updates) :
                /\ updates[i].key = c
                /\ \A j \in (i+1)..Len(updates) : updates[j].key # c]

UpdateCols(updates) == {updates[i].key : i \in 1..Len(updates)}

\* MTable::insert: the rows after a successful insert
MTableInsertRows(rows, row, updates, timestamp) ==
    [k \in DOMAIN rows \cup {row} |->
        IF k = row
        THEN [c \in UpdateCols(updates) |->
                 <<DEntry(timestamp, LastUpdateOf(updates, c).value)>>]
        ELSE rows[k]]

\* MTable::insert without its check for the row: the row is replaced
MTableInsertUnchecked(rows, row, updates, timestamp) ==
    [err |-> None, rows |-> MTableInsertRows(rows, row, updates, timestamp)]

MTableInsert(rows, row, updates, timestamp) ==
    IF row \in DOMAIN rows
    THEN [err |-> AlreadyExists, rows |-> rows]
    ELSE [err |-> None, rows |-> MTableInsertRows(rows, row, updates, timestamp)]

\* MRow::update pushing the new entry at the end of the column
InsertionIndexAtEnd(entries, timestamp, i) == Len(entries)

\* MRow::update stopping only at an entry strictly earlier than the new one
RECURSIVE InsertionIndexBeforeEqual(_, _, _)
InsertionIndexBeforeEqual(entries, timestamp, i) ==
    IF i = 0 THEN 0
    ELSE IF entries[i].timestamp < timestamp THEN i
    ELSE InsertionIndexBeforeEqual(entries, timestamp, i - 1)

\* MRow::update, the backward search for the insertion index
RECURSIVE InsertionIndex(_, _, _)
InsertionIndex(entries, timestamp, i) ==
    IF i = 0 THEN 0
    ELSE IF entries[i].timestamp <= timestamp THEN i
    ELSE InsertionIndex(entries, timestamp, i - 1)

MRowUpdateOne(columns, update, timestamp) ==
    IF update.key \in DOMAIN columns
    THEN [columns EXCEPT ![update.key] =
            InsertAt(@, InsertionIndex(@, timestamp, Len(@)),
                     DEntry(timestamp, update.value))]
    ELSE [c \in DOMAIN columns \cup {update.key} |->
            IF c = update.key THEN <<DEntry(timestamp, update.value)>>
            ELSE columns[c]]

RECURSIVE MRowUpdate(_, _, _)
MRowUpdate(columns, updates, timestamp) ==
    IF updates = <<>> THEN columns
    ELSE MRowUpdate(MRowUpdateOne(columns, Head(updates), timestamp),
                    Tail(updates), timestamp)

\* MTable::update: an absent row is inserted
MTableUpdate(rows, row, updates, timestamp) ==
    IF row \in DOMAIN rows
    THEN [err |-> None,
          rows |-> [rows EXCEPT ![row] = MRowUpdate(@, updates, timestamp)]]
    ELSE MTableInsert(rows, row, updates, timestamp)

\* DColumn::get_value: the last entry with timestamp <= the query's, searching
\* from the end; the last entry of the column when there is none.  An Option
\* or Result is a sequence: <<>> for None/Err, <<x>> for Some(x)/Ok(x).
RECURSIVE GetValueIndex(_, _, _)
GetValueIndex(entries, timestamp, i) ==
    IF i = 0 THEN Len(entries)
    ELSE IF entries[i].timestamp <= timestamp THEN i
    ELSE GetValueIndex(entries, timestamp, i - 1)

DColumnGetValue(entries, timestamp) ==
    IF Len(entries) = 0 THEN <<>>
    ELSE <<entries[GetValueIndex(entries, timestamp, Len(entries))]>>

\* a table's answer to select: a miss, or one Option<DEntry> per column;
\* panic is set when the lookup aborts the process
Miss == [some |-> FALSE, panic |-> FALSE, row |-> <<>>]
Hit(row) == [some |-> TRUE, panic |-> FALSE, row |-> row]
Abort == [some |-> FALSE, panic |-> TRUE, row |-> <<>>]

\* MTable::select
MTableSelect(rows, row, cols, timestamp) ==
    IF row \notin DOMAIN rows THEN Miss
    ELSE Hit([i \in 1..Len(cols) |->
                IF cols[i] \in DOMAIN rows[row]
                THEN DColumnGetValue(rows[row][cols[i]], timestamp)
                ELSE <<>>])

\* ------------------------------------------------- serialized rows (protobuf)
\* A serialized DRow is its `columns` field records followed by its `keys`
\* field records; a record is never split by the writer.  Lengths follow the
\* protobuf wire format: one tag byte and one length byte per record, a zero
\* timestamp is not written.
EntrySize(e) == (IF e.timestamp = 0 THEN 0 ELSE 2) + 2 + ValueLen(e.value)

ColumnSize(entries) ==
    2 + SumSeq([i \in 1..Len(entries) |-> 2 + EntrySize(entries[i])])

ColChunk(entries) ==
    [f |-> "col", entries |-> entries, key |-> 0, size |-> ColumnSize(entries)]

KeyChunk(c) == [f |-> "key", entries |-> <<>>, key |-> c, size |-> 2 + KeyLen(c)]

\* bytes that are part of a record cut by a copy
JunkChunk(n) == [f |-> "junk", entries |-> <<>>, key |-> 0, size |-> n]

\* MRow::write_to_writer: the columns in key order, then the keys
MRowWrite(columns) ==
    LET ks == SortedSeq(DOMAIN columns)
    IN  [i \in 1..Len(ks) |-> ColChunk(columns[ks[i]])]
        \o [i \in 1..Len(ks) |-> KeyChunk(ks[i])]

DataLen(data) == SumSeq([i \in 1..Len(data) |-> data[i].size])

HeaderEntry(key, offset) == [key |-> key, offset |-> offset]

\* MTable::write_to_writer: the rows in key order and one header entry each
RECURSIVE WriteRows(_, _, _, _)
WriteRows(rows, ks, data, headers) ==
    IF ks = <<>> THEN [data |-> data, header |-> headers]
    ELSE WriteRows(rows, Tail(ks), data \o MRowWrite(rows[Head(ks)]),
                   Append(headers, HeaderEntry(Head(ks), DataLen(data))))

MTableWriteToWriter(rows) == WriteRows(rows, SortedSeq(DOMAIN rows), <<>>, <<>>)

\* ----------------------------------------------------------------- dtable.rs
\* the bytes [start, end) of a data file: whole records, and what is left of
\* a record the region cuts
ChunkStart(data, i) == DataLen(SubSeq(data, 1, i - 1))

\* what the bytes [start, end) hold of the record that fills [s, e)
Clip(chunk, s, e, lo, hi) ==
    IF hi <= lo THEN <<>>
    ELSE IF lo = s /\ hi = e THEN <<chunk>>
    ELSE <<JunkChunk(hi - lo)>>

ClipAt(chunk, s, start, end) ==
    Clip(chunk, s, s + chunk.size,
         IF s >= start THEN s ELSE start, Min(s + chunk.size, end))

Region(data, start, end) ==
    Flatten([i \in 1..Len(data) |-> ClipAt(data[i], ChunkStart(data, i), start, end)])

\* seek(start) and take(length), or to the end of the file for None
RegionEnd(data, start, length) ==
    IF length = <<>> THEN DataLen(data) ELSE Min(start + length[1], DataLen(data))

\* the bytes of a file a DataRegion names
ReadRegion(data, region) ==
    Region(data, region.start, RegionEnd(data, region.start, region.length))

RECURSIVE SelectChunks(_, _)
SelectChunks(chunks, f) ==
    IF chunks = <<>> THEN <<>>
    ELSE IF Head(chunks).f = f THEN <<Head(chunks)>> \o SelectChunks(Tail(chunks), f)
    ELSE SelectChunks(Tail(chunks), f)

\* protobuf::parse_from_reader::<DRow>: repeated fields accumulate in order;
\* a cut record does not decode
DRow(ks, cs) ==
    [keys |-> [i \in 1..Len(ks) |-> ks[i].key],
     columns |-> [i \in 1..Len(cs) |-> cs[i].entries]]

ParseDRow(chunks) ==
    IF \E i \in 1..Len(chunks) : chunks[i].f = "junk" THEN <<>>
    ELSE <<DRow(SelectChunks(chunks, "key"), SelectChunks(chunks, "col"))>>

\* struct DataRegion
DataRegion(lookup, index) ==
    [start |-> lookup[index].offset,
     length |-> IF index = Len(lookup) THEN <<>> ELSE <<lookup[index + 1].offset>>]

\* DTable::get_offset_from_index (index counted from 1)
GetOffsetFromIndex(lookup, index) == DataRegion(lookup, index)

\* a binary search that stops when one entry is left between l and r
RECURSIVE RowOffsetSearchExclusive(_, _, _, _)
RowOffsetSearchExclusive(lookup, key, l, r) ==
    IF l >= r THEN <<>>
    ELSE IF key = lookup[((l + r) \div 2) + 1].key
    THEN <<DataRegion(lookup, ((l + r) \div 2) + 1)>>
    ELSE IF key > lookup[((l + r) \div 2) + 1].key
    THEN RowOffsetSearchExclusive(lookup, key, ((l + r) \div 2) + 1, r)
    ELSE RowOffsetSearchExclusive(lookup, key, l, ((l + r) \div 2) - 1)

\* DTable::get_row_offset: binary search of the header
RECURSIVE RowOffsetSearch(_, _, _, _)
RowOffsetSearch(lookup, key, l, r) ==
    IF l > r THEN <<>>
    ELSE IF key = lookup[((l + r) \div 2) + 1].key
    THEN <<DataRegion(lookup, ((l + r) \div 2) + 1)>>
    ELSE IF key > lookup[((l + r) \div 2) + 1].key
    THEN RowOffsetSearch(lookup, key, ((l + r) \div 2) + 1, r)
    ELSE RowOffsetSearch(lookup, key, l, ((l + r) \div 2) - 1)

GetRowOffset(lookup, key) == RowOffsetSearch(lookup, key, 0, Len(lookup) - 1)

DTable(filename, lookup) == [filename |-> filename, lookup |-> lookup]

\* DTable::get_row: [err, row]
ParsedRow(r) ==
    IF r = <<>> THEN [err |-> IoError, row |-> <<>>] ELSE [err |-> None, row |-> r]

ReadRow(dfiles, filename, offset) ==
    IF offset = <<>> THEN [err |-> NotFound, row |-> <<>>]
    ELSE IF filename \notin DOMAIN dfiles THEN [err |-> IoError, row |-> <<>>]
    ELSE ParsedRow(ParseDRow(ReadRegion(dfiles[filename], offset[1])))

DTableGetRow(dfiles, table, key) ==
    ReadRow(dfiles, table.filename, GetRowOffset(table.lookup, key))

\* DRow::get_column: binary search of the keys; "panic" when the column list
\* is shorter than the key list
RECURSIVE ColumnSearch(_, _, _, _)
ColumnSearch(drow, key, l, r) ==
    IF l > r THEN [err |-> NotFound, entries |-> <<>>]
    ELSE IF key = drow.keys[((l + r) \div 2) + 1]
    THEN IF ((l + r) \div 2) + 1 > Len(drow.columns)
         THEN [err |-> "panic", entries |-> <<>>]
         ELSE [err |-> None, entries |-> drow.columns[((l + r) \div 2) + 1]]
    ELSE IF key > drow.keys[((l + r) \div 2) + 1]
    THEN ColumnSearch(drow, key, ((l + r) \div 2) + 1, r)
    ELSE ColumnSearch(drow, key, l, ((l + r) \div 2) - 1)

DRowGetColumn(drow, key) == ColumnSearch(drow, key, 0, Len(drow.keys) - 1)

\* DRow::get_value
ColumnValue(c, timestamp) ==
    IF c.err = None THEN [err |-> None, v |-> DColumnGetValue(c.entries, timestamp)]
    ELSE [err |-> c.err, v |-> <<>>]

DRowGetValue(drow, key, timestamp) == ColumnValue(DRowGetColumn(drow, key), timestamp)

\* DTable::select
RowValues(vs) ==
    IF \E i \in 1..Len(vs) : vs[i].err = "panic" THEN Abort
    ELSE Hit([i \in 1..Len(vs) |-> vs[i].v])

SelectFromRow(r, cols, timestamp) ==
    IF r.err # None THEN Miss
    ELSE RowValues([i \in 1..Len(cols) |-> DRowGetValue(r.row[1], cols[i], timestamp)])

DTableSelect(dfiles, table, row, cols, timestamp) ==
    SelectFromRow(DTableGetRow(dfiles, table, row), cols, timestamp)

\* DTable::from_vec, the merge loop.  consumed[i] counts the header entries
\* taken from table i; the result is the output data, its header and whether
\* the loop completed or aborted on rows sharing a key.
PeekKey(tables, consumed, i) == tables[i].lookup[consumed[i] + 1].key

\* the tables whose iterator is not exhausted
Live(tables, consumed) == {i \in 1..Len(tables) : consumed[i] < Len(tables[i].lookup)}

\* the merge taking the largest of the keys at the heads, not the smallest
NextKeyLargest(tables, consumed) ==
    CHOOSE k \in {PeekKey(tables, consumed, i) : i \in Live(tables, consumed)} :
        \A i \in Live(tables, consumed) : PeekKey(tables, consumed, i) <= k

NextKey(tables, consumed) ==
    SetMin({PeekKey(tables, consumed, i) : i \in Live(tables, consumed)})

IndicesToWrite(tables, consumed) ==
    {i \in Live(tables, consumed) :
        PeekKey(tables, consumed, i) = NextKey(tables, consumed)}

\* io::copy of the region of the row at the head of table `index`
CopyRow(tables, dfiles, consumed, index) ==
    ReadRegion(dfiles[tables[index].filename],
               GetOffsetFromIndex(tables[index].lookup, consumed[index] + 1))

RECURSIVE MergeLoop(_, _, _, _, _)
MergeOne(tables, dfiles, consumed, out, lookup, index, next_key) ==
    MergeLoop(tables, dfiles, [consumed EXCEPT ![index] = @ + 1],
              out \o CopyRow(tables, dfiles, consumed, index),
              Append(lookup, HeaderEntry(next_key, DataLen(out))))

MergeRows(tables, dfiles, consumed, out, lookup, indices_to_write) ==
    IF Cardinality(indices_to_write) = 1
    THEN MergeOne(tables, dfiles, consumed, out, lookup,
                  CHOOSE i \in indices_to_write : TRUE, NextKey(tables, consumed))
    ELSE [status |-> "Panic", data |-> out, lookup |-> lookup]

MergeLoop(tables, dfiles, consumed, out, lookup) ==
    IF Live(tables, consumed) = {}
    THEN [status |-> "Ok", data |-> out, lookup |-> lookup]
    ELSE MergeRows(tables, dfiles, consumed, out, lookup,
                   IndicesToWrite(tables, consumed))

WithFile(files, n, content) ==
    [i \in DOMAIN files \cup {n} |-> IF i = n THEN content ELSE files[i]]

\* DTable::from_vec: [status, dfiles, hfiles, table]
Merged(created, hfiles, filename, m) ==
    IF m.status = "Panic"
    THEN [status |-> "Panic", dfiles |-> WithFile(created, filename, m.data),
          hfiles |-> hfiles, table |-> DTable(filename, m.lookup)]
    ELSE [status |-> "Ok", dfiles |-> WithFile(created, filename, m.data),
          hfiles |-> WithFile(hfiles, filename, m.lookup),
          table |-> DTable(filename, m.lookup)]

MergeInto(created, hfiles, filename, tables) ==
    IF \E i \in 1..Len(tables) : tables[i].filename \notin DOMAIN created
    THEN [status |-> "Err", dfiles |-> created, hfiles |-> hfiles,
          table |-> DTable(filename, <<>>)]
    ELSE Merged(created, hfiles, filename,
                MergeLoop(tables, created, [i \in 1..Len(tables) |-> 0], <<>>, <<>>))

DTableFromVec(dfiles, hfiles, filename, tables) ==
    MergeInto(WithFile(dfiles, filename, <<>>), hfiles, filename, tables)

\* ------------------------------------------------------------------- base.rs
VARIABLES
    up,      \* whether the process (and its Base) is alive
    base,    \* the Base struct: memtable, memsize, disktables, disktable_index,
             \* memtable_size_limit, disktable_limit
    disk,    \* the directory: commit_log, dfiles (<N>.dtable), hfiles (<N>.dtable.header)
    last,    \* the last operation and what it returned
    acked,   \* the entries of the writes that returned Done
    snap,    \* what select returned when the process last stopped
    nwrites, \* insert/update calls so far
    nrestarts,
    server   \* the HTTP server: the mutex's holder, the clock, each request
             \* handler's position, query, timestamp and result, and the
             \* handlers in the order they took the lock

vars == <<up, base, disk, last, acked, snap, nwrites, nrestarts, server>>

EmptyMap == [k \in {} |-> 0]

\* Base::new
BaseNew(memtable_size_limit, disktable_limit) ==
    [memtable |-> EmptyMap, memsize |-> 0, disktables |-> <<>>,
     disktable_index |-> 0,
     memtable_size_limit |-> memtable_size_limit,
     disktable_limit |-> disktable_limit]

\* the loop of Base::select taking the newest candidate whatever the
\* query's timestamp
RECURSIVE NewestOfAll(_, _, _, _, _, _)
NewestOfAll(results, i, timestamp, j, newest_timestamp, newest_index) ==
    IF j > Len(results) THEN [timestamp |-> newest_timestamp, index |-> newest_index]
    ELSE IF /\ results[j][i] # <<>>
            /\ results[j][i][1].timestamp > newest_timestamp
    THEN NewestOfAll(results, i, timestamp, j + 1, results[j][i][1].timestamp, j)
    ELSE NewestOfAll(results, i, timestamp, j + 1, newest_timestamp, newest_index)

\* Base::select
RECURSIVE Newest(_, _, _, _, _, _)
Newest(results, i, timestamp, j, newest_timestamp, newest_index) ==
    IF j > Len(results) THEN [timestamp |-> newest_timestamp, index |-> newest_index]
    ELSE IF /\ results[j][i] # <<>>
            /\ results[j][i][1].timestamp <= timestamp
            /\ results[j][i][1].timestamp > newest_timestamp
    THEN Newest(results, i, timestamp, j + 1, results[j][i][1].timestamp, j)
    ELSE Newest(results, i, timestamp, j + 1, newest_timestamp, newest_index)

RowNotFound == [kind |-> "RowNotFound", columns |-> <<>>]
Data(columns) == [kind |-> "Data", columns |-> columns]
Panicked == [kind |-> "Panic", columns |-> <<>>]

\* the results that are not misses, in the order of the sources
RECURSIVE Hits(_)
Hits(all) ==
    IF all = <<>> THEN <<>>
    ELSE IF Head(all).some THEN <<Head(all).row>> \o Hits(Tail(all))
    ELSE Hits(Tail(all))

NewestValue(results, i, n) ==
    IF n.timestamp = 0 THEN <<>> ELSE <<results[n.index][i][1].value>>

MergeResults(results, cols, timestamp) ==
    IF Len(results) = 0 THEN RowNotFound
    ELSE Data([i \in 1..Len(cols) |->
                 NewestValue(results, i, Newest(results, i, timestamp, 1, 0, 1))])

\* the memtable's result, then every disktable's
SelectAll(b, d, row, cols, timestamp) ==
    <<MTableSelect(b.memtable, row, cols, timestamp)>>
    \o [j \in 1..Len(b.disktables) |->
           DTableSelect(d.dfiles, b.disktables[j], row, cols, timestamp)]

SelectFrom(all, cols, timestamp) ==
    IF \E j \in 1..Len(all) : all[j].panic THEN Panicked
    ELSE MergeResults(Hits(all), cols, timestamp)

BaseSelect(b, d, row, cols, timestamp) ==
    SelectFrom(SelectAll(b, d, row, cols, timestamp), cols, timestamp)

\* Base::merge_disktables: [status, base, disk]
\* a merge that also replaces the memtable, as empty_memtable does
MergeResultClearing(b, d, index, m) ==
    [status |-> m.status,
     base |-> IF m.status = "Ok"
              THEN [b EXCEPT !.disktable_index = index, !.disktables = <<m.table>>,
                             !.memtable = EmptyMap, !.memsize = 0]
              ELSE [b EXCEPT !.disktable_index = index],
     disk |-> [d EXCEPT !.dfiles = m.dfiles, !.hfiles = m.hfiles]]

MergeResult(b, d, index, m) ==
    [status |-> m.status,
     base |-> IF m.status = "Ok"
              THEN [b EXCEPT !.disktable_index = index, !.disktables = <<m.table>>]
              ELSE [b EXCEPT !.disktable_index = index],
     disk |-> [d EXCEPT !.dfiles = m.dfiles, !.hfiles = m.hfiles]]

MergeDisktables(b, d) ==
    MergeResult(b, d, b.disktable_index + 1,
                DTableFromVec(d.dfiles, d.hfiles, b.disktable_index + 1, b.disktables))

\* Base::empty_memtable: [status, base, disk]
BumpIndex(b) == [b EXCEPT !.disktable_index = @ + 1]

MergeIfFull(b1, d) ==
    IF Len(b1.disktables) + 1 > b1.disktable_limit
    THEN MergeDisktables(b1, d)
    ELSE [status |-> "Ok", base |-> b1, disk |-> d]

\* Base::empty_memtable leaving the commit log as it is
WriteMemtableKeepingLog(b2, d2, w) ==
    [status |-> "Ok",
     base |-> [b2 EXCEPT !.memtable = EmptyMap, !.memsize = 0,
                   !.disktables = Append(@, DTable(b2.disktable_index, w.header))],
     disk |-> [commit_log |-> d2.commit_log,
               dfiles |-> WithFile(d2.dfiles, b2.disktable_index, w.data),
               hfiles |-> WithFile(d2.hfiles, b2.disktable_index, w.header)]]

WriteMemtable(b2, d2, w) ==
    [status |-> "Ok",
     base |-> [b2 EXCEPT !.memtable = EmptyMap, !.memsize = 0,
                   !.disktables = Append(@, DTable(b2.disktable_index, w.header))],
     disk |-> [commit_log |-> <<>>,
               dfiles |-> WithFile(d2.dfiles, b2.disktable_index, w.data),
               hfiles |-> WithFile(d2.hfiles, b2.disktable_index, w.header)]]

AfterMerge(merged) ==
    IF merged.status # "Ok" THEN merged
    ELSE WriteMemtable(merged.base, merged.disk,
                       MTableWriteToWriter(merged.base.memtable))

EmptyMemtable(b, d) == AfterMerge(MergeIfFull(BumpIndex(b), d))

\* Base::commit leaving the timestamp out of the record
CommitLogEntryUnstamped(row, updates, timestamp) ==
    [key |-> row, timestamp |-> 0, updates |-> updates]

\* Base::commit: the record appended to the commit log
CommitLogEntry(row, updates, timestamp) ==
    [key |-> row, timestamp |-> timestamp, updates |-> updates]

Commit(d, row, updates, timestamp) ==
    [d EXCEPT !.commit_log = Append(@, CommitLogEntry(row, updates, timestamp))]

\* Base::commit returning an error: at write_u32 (nothing is in the file), at
\* write_to_writer (the length prefix is in the file, the record is not), or
\* at sync_all (the record is in the file)
CommitFailPoints == {"size", "record", "sync"}

\* a length prefix whose record is missing
TornEntry == [key |-> 0, timestamp |-> 0, updates |-> <<>>]

\* one to three bytes of a length prefix, which write_u32 left when the
\* process died inside it
TornPrefix == [key |-> -1, timestamp |-> 0, updates |-> <<>>]

FailedCommit(d, row, updates, timestamp, point) ==
    IF point = "size" THEN d
    ELSE IF point = "record" THEN [d EXCEPT !.commit_log = Append(@, TornEntry)]
    ELSE Commit(d, row, updates, timestamp)

\* check_size_limits with the limit itself counted as too large
CheckSizeLimitsAtLimit(b, d) ==
    IF b.memsize >= b.memtable_size_limit
    THEN LET e == EmptyMemtable(b, d)
         IN  [e EXCEPT !.status = IF @ = "Ok" THEN "Ok" ELSE "Panic"]
    ELSE [status |-> "Ok", base |-> b, disk |-> d]

\* Base::check_size_limits: empty_memtable().unwrap() aborts on an error
CheckSizeLimits(b, d) ==
    IF b.memsize > b.memtable_size_limit
    THEN LET e == EmptyMemtable(b, d)
         IN  [e EXCEPT !.status = IF @ = "Ok" THEN "Ok" ELSE "Panic"]
    ELSE [status |-> "Ok", base |-> b, disk |-> d]

\* the memtable's running size after a write
Grow(memsize, updates) ==
    memsize + SumSeq([i \in 1..Len(updates) |-> MUpdateSize(updates[i])])

\* ------------------------------------------------------------ the operations
ColLists == {<<>>, <<1>>, <<2>>, <<1, 2>>, <<2, 1>>}

\* the column lists a read may ask for
ReadLists == {<<>>, <<1>>, <<2, 1>>}

\* the update lists a write may carry, with values made from v: none, one
\* column, two columns, one column twice
UpdateLists(v) ==
    {<<>>, <<MUpdate(1, v)>>, <<MUpdate(2, v), MUpdate(1, v)>>,
     <<MUpdate(2, v), MUpdate(2, v + 10)>>}

NoOp == [op |-> "new", row |-> 0, updates |-> <<>>, cols |-> <<>>, timestamp |-> 0,
         res |-> "Ok", columns |-> <<>>, flushed |-> FALSE]

Op(op, row, updates, cols, timestamp, res, columns, flushed) ==
    [op |-> op, row |-> row, updates |-> updates, cols |-> cols,
     timestamp |-> timestamp, res |-> res, columns |-> columns, flushed |-> flushed]

EmptyDisk == [commit_log |-> <<>>, dfiles |-> EmptyMap, hfiles |-> EmptyMap]

\* what is left of a Base whose process has died: the configuration
Dead(b) == BaseNew(b.memtable_size_limit, b.disktable_limit)

AllSelects(b, d) ==
    [k \in Keys |-> [c \in ColLists |-> BaseSelect(b, d, k, c, MaxTime)]]

NoSnap == [k \in Keys |-> [c \in ColLists |-> RowNotFound]]

Entries(row, updates, timestamp) ==
    {[row |-> row, col |-> c, timestamp |-> timestamp,
      value |-> LastUpdateOf(updates, c).value] : c \in UpdateCols(updates)}

\* struct RequestHandler before any request: the mutex free, every handler idle
Handlers == 1..MaxHandlers

NoQuery == [kind |-> "none", row |-> 0, updates |-> <<>>, cols |-> <<>>]

NoResult == [kind |-> "none", columns |-> <<>>]

ServerNew ==
    [lock |-> 0, clock |-> 0, served |-> <<>>,
     handlers |-> [h \in Handlers |->
                      [pc |-> "idle", query |-> NoQuery, timestamp |-> 0, result |-> NoResult]]]

InitWith(memtable_size_limit, disktable_limit) ==
    /\ up = TRUE
    /\ base = BaseNew(memtable_size_limit, disktable_limit)
    /\ disk = EmptyDisk
    /\ last = NoOp
    /\ acked = {}
    /\ snap = NoSnap
    /\ nwrites = 0
    /\ nrestarts = 0
    /\ server = ServerNew

\* the tail of Base::insert and Base::update after the memtable changed:
\* commit, check_size_limits, Done
Written(op, rows, row, updates, timestamp) ==
    \E c \in {CheckSizeLimits([base EXCEPT !.memtable = rows,
                                           !.memsize = Grow(@, updates)],
                              Commit(disk, row, updates, timestamp))} :
        /\ c.base.disktable_index <= MaxIndex
        /\ disk' = c.disk
        /\ IF c.status = "Ok"
           THEN /\ base' = c.base
                /\ up' = TRUE
                /\ last' = Op(op, row, updates, <<>>, timestamp, "Done", <<>>,
                              Grow(base.memsize, updates) > base.memtable_size_limit)
                /\ acked' = acked \cup Entries(row, updates, timestamp)
           ELSE /\ base' = Dead(base)
                /\ up' = FALSE
                /\ last' = Op(op, row, updates, <<>>, timestamp, "Panic", <<>>, TRUE)
                /\ acked' = acked
        /\ UNCHANGED <<snap, nrestarts, server>>

\* a write that returns before the memtable changed
Refused(op, row, updates, timestamp, res) ==
    /\ last' = Op(op, row, updates, <<>>, timestamp, res, <<>>, FALSE)
    /\ UNCHANGED <<up, base, disk, acked, snap, nrestarts, server>>

\* Base::insert and Base::update when commit returns an error: PartialCommit,
\* with the memtable as the write left it and no check of the size limits
CommitFailed(op, rows, row, updates, timestamp, point) ==
    /\ base' = [base EXCEPT !.memtable = rows, !.memsize = Grow(@, updates)]
    /\ disk' = FailedCommit(disk, row, updates, timestamp, point)
    /\ last' = Op(op, row, updates, <<>>, timestamp, "PartialCommit", <<>>, FALSE)
    /\ UNCHANGED <<up, acked, snap, nrestarts, server>>

\* the row keys a disktable's header names, and the rows some source holds
Range(s) == {s[i] : i \in 1..Len(s)}

HeaderKeys(table) == {table.lookup[i].key : i \in 1..Len(table.lookup)}

HeldRows(b) ==
    DOMAIN b.memtable \cup UNION {HeaderKeys(t) : t \in Range(b.disktables)}

\* Base::insert looking for the row in the disktables as well
InsertCheckingDisktables(row, updates, timestamp) ==
    /\ up
    /\ nwrites' = nwrites + 1
    /\ \E m \in {MTableInsert(base.memtable, row, updates, timestamp)} :
           IF m.err = AlreadyExists \/ row \in HeldRows(base)
           THEN Refused("insert", row, updates, timestamp, "RowAlreadyExists")
           ELSE Written("insert", m.rows, row, updates, timestamp)

\* Base::insert
Insert(row, updates, timestamp) ==
    /\ up
    /\ nwrites' = nwrites + 1
    /\ \E m \in {MTableInsert(base.memtable, row, updates, timestamp)} :
           IF m.err = AlreadyExists
           THEN Refused("insert", row, updates, timestamp, "RowAlreadyExists")
           ELSE Written("insert", m.rows, row, updates, timestamp)

\* Base::insert, the commit failing at `point`
InsertPartialCommit(row, updates, timestamp, point) ==
    /\ up
    /\ nwrites' = nwrites + 1
    /\ \E m \in {MTableInsert(base.memtable, row, updates, timestamp)} :
           /\ m.err = None
           /\ CommitFailed("insert", m.rows, row, updates, timestamp, point)

\* Base::direct_update
DirectUpdate(m) ==
    IF m.err = None THEN "Done"
    ELSE IF m.err = NotFound THEN "RowNotFound"
    ELSE "InternalError"

\* Base::update (direct_update, then commit)
Update(row, updates, timestamp) ==
    /\ up
    /\ nwrites' = nwrites + 1
    /\ \E m \in {MTableUpdate(base.memtable, row, updates, timestamp)} :
           IF DirectUpdate(m) # "Done"
           THEN Refused("update", row, updates, timestamp, DirectUpdate(m))
           ELSE Written("update", m.rows, row, updates, timestamp)

\* Base::update, the commit failing at `point`
UpdatePartialCommit(row, updates, timestamp, point) ==
    /\ up
    /\ nwrites' = nwrites + 1
    /\ \E m \in {MTableUpdate(base.memtable, row, updates, timestamp)} :
           /\ DirectUpdate(m) = "Done"
           /\ CommitFailed("update", m.rows, row, updates, timestamp, point)

\* Base::select takes &self: it changes nothing, unless a lookup aborts the
\* process.  What it returns is BaseSelect.
Select(row, cols, timestamp) ==
    /\ up
    /\ IF BaseSelect(base, disk, row, cols, timestamp).kind = "Panic"
       THEN /\ up' = FALSE
            /\ base' = Dead(base)
            /\ last' = Op("select", row, <<>>, cols, timestamp, "Panic", <<>>, FALSE)
       ELSE UNCHANGED <<up, base, last>>
    /\ UNCHANGED <<disk, acked, snap, nwrites, nrestarts, server>>

\* a call of a compaction from outside a write
Compacted(op, e) ==
    /\ e.base.disktable_index <= MaxIndex
    /\ disk' = e.disk
    /\ up' = (e.status # "Panic")
    /\ base' = IF e.status = "Panic" THEN Dead(base) ELSE e.base
    /\ last' = Op(op, 0, <<>>, <<>>, 0, e.status, <<>>, FALSE)
    /\ UNCHANGED <<acked, snap, nwrites, nrestarts, server>>

\* Base::empty_memtable, called directly
EmptyMemtableCall ==
    /\ up
    /\ \E e \in {EmptyMemtable(base, disk)} : Compacted("empty_memtable", e)

\* Base::merge_disktables, called directly
MergeDisktablesCall ==
    /\ up
    /\ \E e \in {MergeDisktables(base, disk)} : Compacted("merge_disktables", e)

\* ------------------------------------------------------- stopping and crashing
\* the process dies inside Base::commit: inside write_u32, or after it and
\* before the record is complete
CommitCrashPoints == {"prefix", "record"}

CommitCrashDisk(d, point) ==
    [d EXCEPT !.commit_log = Append(@, IF point = "prefix" THEN TornPrefix ELSE TornEntry)]

Stopped(op, d) ==
    /\ up
    /\ up' = FALSE
    /\ base' = Dead(base)
    /\ disk' = d
    /\ snap' = AllSelects(base, disk)
    /\ last' = Op(op, 0, <<>>, <<>>, 0, "Killed", <<>>, FALSE)
    /\ UNCHANGED <<acked, nwrites, nrestarts, server>>

\* the process stops between two operations
Stop == Stopped("stop", disk)

\* the directory when the process dies inside merge_disktables: after the
\* output file is created, or after the rows are copied and before the header
\* file is created
MergeCrashPoints == {"merge_created", "merge_copied"}

MergeCrashDisk(b, d, point) ==
    IF point = "merge_created"
    THEN [d EXCEPT !.dfiles = WithFile(@, b.disktable_index + 1, <<>>)]
    ELSE [d EXCEPT !.dfiles = DTableFromVec(d.dfiles, d.hfiles,
                                  b.disktable_index + 1, b.disktables).dfiles]

\* the directory when the process dies inside empty_memtable: inside its
\* merge, after the header file is created, after the data file is created,
\* after both are written and synced (the memtable and the commit log are
\* replaced after that)
EmptyCrashPoints == MergeCrashPoints \cup {"header_created", "data_created", "written"}

CrashWrite(d2, n, w, point) ==
    IF point = "header_created"
    THEN [d2 EXCEPT !.hfiles = WithFile(@, n, <<>>)]
    ELSE IF point = "data_created"
    THEN [d2 EXCEPT !.hfiles = WithFile(@, n, <<>>),
                    !.dfiles = WithFile(@, n, <<>>)]
    ELSE [d2 EXCEPT !.hfiles = WithFile(@, n, w.header),
                    !.dfiles = WithFile(@, n, w.data)]

CrashAfterMerge(merged, w, point) ==
    CrashWrite(merged.disk, merged.base.disktable_index, w, point)

EmptyMemtableCrashDisk(b, d, point) ==
    IF point \in MergeCrashPoints THEN MergeCrashDisk(BumpIndex(b), d, point)
    ELSE CrashAfterMerge(MergeIfFull(BumpIndex(b), d),
                         MTableWriteToWriter(b.memtable), point)

CrashInEmptyMemtable(point) ==
    /\ up
    /\ base.disktable_index + 2 <= MaxIndex
    /\ IF point \in MergeCrashPoints
       THEN Len(base.disktables) + 1 > base.disktable_limit
       ELSE MergeIfFull(BumpIndex(base), disk).status = "Ok"
    /\ Stopped("crash_empty_memtable", EmptyMemtableCrashDisk(base, disk, point))

CrashInMerge(point) ==
    /\ up
    /\ base.disktable_index + 1 <= MaxIndex
    /\ Stopped("crash_merge_disktables", MergeCrashDisk(base, disk, point))

\* the process dies inside the commit of a write
CrashInCommit(point) ==
    /\ up
    /\ Stopped("crash_commit", CommitCrashDisk(disk, point))

\* --------------------------------------------------------------- Base::load
\* load_mtable: every commit log record goes through direct_update
RECURSIVE Replay(_, _)
Replay(b, log) ==
    IF log = <<>> \/ Head(log) = TornPrefix THEN b
    ELSE Replay([b EXCEPT
                    !.memtable = MTableUpdate(@, Head(log).key, Head(log).updates,
                                              Head(log).timestamp).rows,
                    !.memsize = Grow(@, Head(log).updates)],
                Tail(log))

\* the names of *.dtable files that the scanner /([0-9]+)\.dtable$ does not
\* match: -1 stands for one, and glob yields it before the numbered files
ForeignNames == {-1}

\* the bytes of a header file that parse_from_reader::<DTableHeader> rejects
BadHeader == <<[key |-> 0, offset |-> -1]>>

\* whether load_dtables can load the data file `name`
Loadable(d, name) ==
    /\ name \notin ForeignNames
    /\ name \in DOMAIN d.hfiles
    /\ d.hfiles[name] # BadHeader

\* load_dtables passing over the files it cannot load
RECURSIVE LoadDTablesSkipping(_, _, _)
LoadDTablesSkipping(b, d, names) ==
    IF names = <<>> THEN [status |-> "Ok", base |-> b]
    ELSE IF ~Loadable(d, Head(names)) THEN LoadDTablesSkipping(b, d, Tail(names))
    ELSE LoadDTablesSkipping(
            [b EXCEPT !.disktable_index = IF Head(names) > @ THEN Head(names) ELSE @,
                      !.disktables = Append(@, DTable(Head(names), d.hfiles[Head(names)]))],
            d, Tail(names))

\* load_dtables: the <N>.dtable files in the order glob yields them (by name,
\* which is by number below 10); a name the scanner does not match, a data
\* file without its header file and a header that does not parse are fatal
RECURSIVE LoadDTables(_, _, _)
LoadDTables(b, d, names) ==
    IF names = <<>> THEN [status |-> "Ok", base |-> b]
    ELSE IF ~Loadable(d, Head(names))
    THEN [status |-> "CorruptedFiles", base |-> b]
    ELSE LoadDTables(
            [b EXCEPT !.disktable_index = IF Head(names) > @ THEN Head(names) ELSE @,
                      !.disktables = Append(@, DTable(Head(names), d.hfiles[Head(names)]))],
            d, Tail(names))

\* load_mtable: read_exact or the parse of a record fails after a length
\* prefix whose record is missing
Torn(log) ==
    \E i \in 1..Len(log) :
        \/ log[i] = TornEntry
        \/ log[i] = TornPrefix /\ i < Len(log)

Load(b, d) ==
    IF Torn(d.commit_log) THEN [status |-> "CorruptedFiles", base |-> b]
    ELSE LoadDTables(Replay(b, d.commit_log), d, SortedSeq(DOMAIN d.dfiles))

\* a new process: Base::new on the directory, then load()
Reopen ==
    /\ ~up
    /\ nrestarts < MaxRestarts
    /\ nrestarts' = nrestarts + 1
    /\ \E l \in {Load(Dead(base), disk)} :
           /\ up' = (l.status = "Ok")
           /\ base' = IF l.status = "Ok" THEN l.base ELSE Dead(base)
           /\ last' = Op("load", 0, <<>>, <<>>, 0, l.status, <<>>, FALSE)
    /\ UNCHANGED <<disk, acked, snap, nwrites, server>>

\* the directory is damaged while no process runs: a file that is no
\* disktable is given a .dtable name, or a header file is overwritten
Damage ==
    /\ ~up
    /\ nrestarts < MaxRestarts
    /\ last.op \notin {"damage", "load"}
    /\ \/ \E name \in ForeignNames :
              disk' = [disk EXCEPT !.dfiles = WithFile(@, name, <<>>)]
       \/ \E n \in DOMAIN disk.dfiles \cap DOMAIN disk.hfiles :
              disk' = [disk EXCEPT !.hfiles = WithFile(@, n, BadHeader)]
    /\ last' = Op("damage", 0, <<>>, <<>>, 0, "Killed", <<>>, FALSE)
    /\ UNCHANGED <<up, base, acked, snap, nwrites, nrestarts, server>>

\* the process is stopped between two operations and started again on the
\* same directory: Base::new, then load()
Restart ==
    /\ up
    /\ nrestarts < MaxRestarts
    /\ nrestarts' = nrestarts + 1
    /\ snap' = AllSelects(base, disk)
    /\ \E l \in {Load(Dead(base), disk)} :
           /\ up' = (l.status = "Ok")
           /\ base' = IF l.status = "Ok" THEN l.base ELSE Dead(base)
           /\ last' = Op("restart", 0, <<>>, <<>>, 0, l.status, <<>>, FALSE)
    /\ UNCHANGED <<disk, acked, nwrites, server>>

\* ------------------------------------------------------------ specifications
Writes(n, keys, lists, timestamps) ==
    \/ nwrites < n /\ \E row \in keys, u \in lists, t \in timestamps : Insert(row, u, t)
    \/ nwrites < n /\ \E row \in keys, u \in lists, t \in timestamps : Update(row, u, t)

\* the writes whose commit fails
FailedWrites(n, keys, lists, timestamps) ==
    \/ nwrites < n /\ \E row \in keys, u \in lists, t \in timestamps, point \in CommitFailPoints :
                         InsertPartialCommit(row, u, t, point)
    \/ nwrites < n /\ \E row \in keys, u \in lists, t \in timestamps, point \in CommitFailPoints :
                         UpdatePartialCommit(row, u, t, point)

Reads(keys, lists, times) ==
    \E row \in keys, cols \in lists, t \in times : Select(row, cols, t)

Compactions == EmptyMemtableCall \/ MergeDisktablesCall

Crashes ==
    \/ Stop
    \/ \E point \in EmptyCrashPoints : CrashInEmptyMemtable(point)
    \/ \E point \in MergeCrashPoints : CrashInMerge(point)
    \/ Reopen

\* the limits of the configuration: the default disktable limit, and a
\* memtable size limit that no behaviour reaches or one that two updates pass
DisktableLimit == 2
LargeSizeLimit == 100
SmallSizeLimit == 2

\* Spec: two rows, every update list, write timestamps from 0; compactions
\* are called, the memtable size limit is out of reach
Init == InitWith(LargeSizeLimit, DisktableLimit)

Next ==
    \/ Writes(MaxWrites, {1, 2}, UpdateLists(nwrites + 1), Timestamps)
    \/ Reads({1, 2}, ReadLists, {0, MaxTime})
    \/ Compactions

Spec == Init /\ [][Next]_vars

\* SpecRows: three rows of two sizes, so that a disktable holds a row that is
\* neither its first nor its last
RowLists(v) == {<<MUpdate(1, v)>>, <<MUpdate(1, v), MUpdate(2, v)>>}

InitRows == InitWith(LargeSizeLimit, DisktableLimit)

NextRows ==
    \/ Writes(MaxRows, Keys, RowLists(nwrites + 1), {1})
    \/ Reads(Keys, {<<1>>}, {MaxTime})
    \/ Compactions

SpecRows == InitRows /\ [][NextRows]_vars

\* SpecCrash: the process stops or dies, between operations or inside a
\* compaction, and a new process opens the directory
InitCrash == InitWith(LargeSizeLimit, DisktableLimit)

NextCrash ==
    \/ Writes(MaxWrites, {1, 2}, RowLists(nwrites + 1), {1, 2})
    \/ Reads({1, 2}, {<<1>>}, {MaxTime})
    \/ Compactions
    \/ Crashes

SpecCrash == InitCrash /\ [][NextCrash]_vars

\* SpecAuto: a memtable size limit that a write of two columns passes, so
\* that writes run minor and major compactions themselves
InitAuto == InitWith(SmallSizeLimit, DisktableLimit)

NextAuto ==
    \/ Writes(MaxRows, {1, 2}, RowLists(nwrites + 1), {1})
    \/ Reads({1, 2}, {<<1>>}, {MaxTime})
    \/ Compactions

SpecAuto == InitAuto /\ [][NextAuto]_vars

\* inserts and updates of two rows, with an empty, a two-column and a
\* repeated-column update list, between compactions
InsertLists(v) == {<<>>, <<MUpdate(2, v), MUpdate(1, v)>>, <<MUpdate(2, v), MUpdate(2, v + 10)>>}

InitInsert == InitWith(LargeSizeLimit, DisktableLimit)

NextInsert ==
    \/ Writes(MaxWrites, {1, 2}, InsertLists(nwrites + 1), {1})
    \/ Reads({1, 2}, {<<2, 1>>}, {MaxTime})
    \/ Compactions

SpecInsert == InitInsert /\ [][NextInsert]_vars

\* writes whose commit may fail, compactions, stops and restarts
InitFail == InitWith(LargeSizeLimit, DisktableLimit)

NextFail ==
    \/ Writes(MaxWrites, {1}, RowLists(nwrites + 1), {0, 1})
    \/ FailedWrites(MaxWrites, {1}, RowLists(nwrites + 1), {0, 1})
    \/ Reads({1}, {<<1>>}, {0, MaxTime})
    \/ Compactions
    \/ Stop
    \/ Reopen

SpecFail == InitFail /\ [][NextFail]_vars

\* the same operations on one row with one-column writes
InitLog == InitWith(LargeSizeLimit, DisktableLimit)

NextLog ==
    \/ Writes(MaxWrites, {1}, {<<MUpdate(1, nwrites + 1)>>}, {1})
    \/ FailedWrites(MaxWrites, {1}, {<<MUpdate(1, nwrites + 1)>>}, {1})
    \/ Reads({1}, {<<1>>}, {MaxTime})
    \/ Compactions
    \/ Stop
    \/ Reopen

SpecLog == InitLog /\ [][NextLog]_vars

\* SpecLimit: SpecAuto's writes and compactions on an engine configured with
\* the smallest disktable limit, 1, or with the default
DisktableLimits == {1, DisktableLimit}

InitLimit == \E limit \in DisktableLimits : InitWith(SmallSizeLimit, limit)

NextLimit ==
    \/ Writes(MaxRows, {1, 2}, RowLists(nwrites + 1), {1})
    \/ Reads({1, 2}, {<<1>>}, {MaxTime})
    \/ Compactions

SpecLimit == InitLimit /\ [][NextLimit]_vars

\* SpecRestart: writes of two rows, compactions, and restarts of the process
InitRestart == InitWith(LargeSizeLimit, DisktableLimit)

NextRestart ==
    \/ Writes(MaxWrites, {1, 2}, {<<MUpdate(1, nwrites + 1)>>}, {1})
    \/ Reads({1, 2}, {<<1>>}, {MaxTime})
    \/ Compactions
    \/ Restart

SpecRestart == InitRestart /\ [][NextRestart]_vars

\* SpecTorn: writes of one row, compactions, stops and deaths inside commit,
\* and restarts
InitTorn == InitWith(LargeSizeLimit, DisktableLimit)

NextTorn ==
    \/ Writes(MaxWrites, {1}, {<<MUpdate(1, nwrites + 1)>>}, {1})
    \/ Reads({1}, {<<1>>}, {MaxTime})
    \/ Compactions
    \/ Stop
    \/ \E point \in CommitCrashPoints : CrashInCommit(point)
    \/ Reopen

SpecTorn == InitTorn /\ [][NextTorn]_vars

\* SpecOpen: writes of one row, compactions, stops and deaths inside a major
\* compaction, damage to the directory, and restarts
InitOpen == InitWith(LargeSizeLimit, DisktableLimit)

NextOpen ==
    \/ Writes(MaxWrites, {1}, {<<MUpdate(1, nwrites + 1)>>}, {1})
    \/ Reads({1}, {<<1>>}, {MaxTime})
    \/ Compactions
    \/ Stop
    \/ \E point \in MergeCrashPoints : CrashInMerge(point)
    \/ Damage
    \/ Reopen

SpecOpen == InitOpen /\ [][NextOpen]_vars

\* SpecMem: inserts and updates of one column of one row, once or twice in a
\* call, at timestamps in any order, and reads of it at every timestamp
MemLists(v) == {<<MUpdate(1, v)>>, <<MUpdate(1, v), MUpdate(1, v + 10)>>}

InitMem == InitWith(LargeSizeLimit, DisktableLimit)

NextMem ==
    \/ Writes(MaxRows, {1}, MemLists(nwrites + 1), Timestamps)
    \/ Reads({1}, {<<1>>, <<2>>}, QueryTimes)

SpecMem == InitMem /\ [][NextMem]_vars

\* SpecColumn: DColumn::get_value on columns of up to MaxLen entries stored in
\* ascending or in descending timestamp order, at every read timestamp
StoredColumn(ts) == [i \in 1..Len(ts) |-> DEntry(ts[i], i)]

AscendingColumns ==
    {StoredColumn(ts) : ts \in {s \in UNION {[1..n -> Timestamps] : n \in 0..MaxLen} :
                                    \A i \in 1..(Len(s) - 1) : s[i] <= s[i + 1]}}

DescendingColumns ==
    {StoredColumn(ts) : ts \in {s \in UNION {[1..n -> Timestamps] : n \in 0..MaxLen} :
                                    \A i \in 1..(Len(s) - 1) : s[i] >= s[i + 1]}}

\* a call of DColumn::get_value and what it returned
GetValue(entries, timestamp) ==
    /\ up
    /\ last' = [op |-> "get_value", entries |-> entries, timestamp |-> timestamp,
                value |-> DColumnGetValue(entries, timestamp)]
    /\ UNCHANGED <<up, base, disk, acked, snap, nwrites, nrestarts, server>>

InitColumn == InitWith(LargeSizeLimit, DisktableLimit)

NextColumn ==
    \/ \E entries \in AscendingColumns, T \in QueryTimes : GetValue(entries, T)
    \/ \E entries \in DescendingColumns, T \in QueryTimes : GetValue(entries, T)

SpecColumn == InitColumn /\ [][NextColumn]_vars

\* ---------------------------------------------------------------- properties
OnlyInDisktable(b, row) ==
    /\ row \notin DOMAIN b.memtable
    /\ \E t \in Range(b.disktables) : row \in HeaderKeys(t)

\* the written entries of (row, col) with the greatest timestamp <= T
NewestAcked(row, col, T) ==
    {e \in acked :
        /\ e.row = row /\ e.col = col /\ e.timestamp <= T
        /\ \A f \in acked :
              (f.row = row /\ f.col = col /\ f.timestamp <= T)
                  => f.timestamp <= e.timestamp}

\* what a read of (row, col) at T may return: the value of such an entry
\* (of either, when two were written at the same timestamp), None without one
Versioned(row, col, T) ==
    IF NewestAcked(row, col, T) = {} THEN {<<>>}
    ELSE {<<e.value>> : e \in NewestAcked(row, col, T)}

ReadsVersion(r, row, col, T) ==
    r.kind = "Data" /\ r.columns[1] \in Versioned(row, col, T)

\* every select result of an engine, over the column lists `lists`
Selects(b, d, lists) ==
    [k \in Keys |-> [c \in lists |-> [T \in QueryTimes |-> BaseSelect(b, d, k, c, T)]]]

\* a step of the named operation
StepOf(op) == last'.op = op /\ vars' # vars

\* the memtable row a write creates for an absent row
NewRow(updates, timestamp) ==
    [c \in UpdateCols(updates) |->
        <<DEntry(timestamp, LastUpdateOf(updates, c).value)>>]

\* the serialized form of that row
NewDRow(updates, timestamp) ==
    [keys |-> SortedSeq(UpdateCols(updates)),
     columns |-> [i \in 1..Cardinality(UpdateCols(updates)) |->
                    NewRow(updates, timestamp)[SortedSeq(UpdateCols(updates))[i]]]]

\* the engine holds the row a write created: in the memtable, or, when the
\* write ran a minor compaction, in the newest disktable
HoldsNewRow(b, d, w) ==
    IF ~w.flushed
    THEN /\ w.row \in DOMAIN b.memtable
         /\ b.memtable[w.row] = NewRow(w.updates, w.timestamp)
    ELSE /\ b.memtable = EmptyMap
         /\ b.disktables # <<>>
         /\ DTableGetRow(d.dfiles, b.disktables[Len(b.disktables)], w.row)
              = [err |-> None, row |-> <<NewDRow(w.updates, w.timestamp)>>]

\* C1: after any sequence of inserts, updates and compactions, for every row
\* some source holds, every column and every read timestamp (0 and the
\* largest included), select(row, [col], T) returns Data with the value of the
\* written entry of (row, col) that has the greatest timestamp <= T, and None
\* when there is no such entry.
C1_VersionedRead ==
    up => \A row \in HeldRows(base), col \in Cols, T \in QueryTimes :
              ReadsVersion(BaseSelect(base, disk, row, <<col>>, T), row, col, T)

\* C2: a successful empty_memtable changes no select result, for every key,
\* column list and timestamp.
C2_MinorCompactionTransparent ==
    [][(up /\ StepOf("empty_memtable") /\ last'.res = "Ok")
         => Selects(base', disk', ColLists) = Selects(base, disk, ColLists)]_vars

\* C3: merge_disktables succeeds on any list of disktables, whether or not
\* they share keys, and changes no select(K, [C], T).
C3_MajorCompactionPreserves ==
    [][(up /\ StepOf("merge_disktables"))
         => /\ last'.res = "Ok"
            /\ Selects(base', disk', {<<1>>, <<2>>})
                 = Selects(base, disk, {<<1>>, <<2>>})]_vars

\* C4: when the process stops and a new one loads the directory successfully,
\* select(k, cols, u64::MAX) returns for every key what it returned right
\* before the stop.
C4_Recovery ==
    [][(last.op = "stop" /\ StepOf("load") /\ last'.res = "Ok")
         => AllSelects(base', disk') = snap]_vars

\* C5: when the process dies at a step inside empty_memtable or inside
\* merge_disktables, the next process loads the directory and every entry of
\* a write that returned Done is returned by select at any T >= its timestamp
\* at which no newer entry exists.
Survives(b, d, e) ==
    \A T \in QueryTimes :
        e \in NewestAcked(e.row, e.col, T)
            => ReadsVersion(BaseSelect(b, d, e.row, <<e.col>>, T), e.row, e.col, T)

C5_CrashDurability ==
    [][(last.op \in {"crash_empty_memtable", "crash_merge_disktables"}
          /\ StepOf("load"))
         => \A e \in acked : up' /\ Survives(base', disk', e)]_vars

\* C6: the files of a disktable that stays in the live list are not written,
\* and the live disktables have pairwise different file indexes (the output
\* of a compaction never takes the index of a live disktable).
FilesOf(d, n) ==
    <<IF n \in DOMAIN d.dfiles THEN <<d.dfiles[n]>> ELSE <<>>,
      IF n \in DOMAIN d.hfiles THEN <<d.hfiles[n]>> ELSE <<>>>>

C6_LiveFilesNeverRewritten ==
    [][(up /\ up')
         => /\ \A t \in Range(base.disktables) :
                  t \in Range(base'.disktables)
                      => FilesOf(disk', t.filename) = FilesOf(disk, t.filename)
            /\ \A i, j \in 1..Len(base'.disktables) :
                  i # j => base'.disktables[i].filename # base'.disktables[j].filename]_vars

\* C7: insert returns RowAlreadyExists exactly when the memtable holds the
\* row, whatever the disktables hold, and then the memtable, the commit log
\* and the disktable list are unchanged; otherwise, when it returns, the
\* engine holds the new row with exactly the update columns, one entry at
\* the write's timestamp each.
C7_InsertChecksMemtable ==
    [][StepOf("insert")
         => /\ (last'.res = "RowAlreadyExists") <=> (last'.row \in DOMAIN base.memtable)
            /\ last'.res = "RowAlreadyExists"
                 => /\ base'.memtable = base.memtable
                    /\ base'.disktables = base.disktables
                    /\ disk'.commit_log = disk.commit_log
            /\ last'.res = "Done" => HoldsNewRow(base', disk', last')]_vars

\* an insert was refused for a row of the memtable
C7_Witness ==
    /\ last.op = "insert" /\ last.res = "RowAlreadyExists"
    /\ last.row \in DOMAIN base.memtable

\* C8 as stated: insert on a row that only a disktable holds returns
\* RowAlreadyExists.
C8_InsertFlushedRowFails ==
    [][(StepOf("insert") /\ OnlyInDisktable(base, last'.row))
         => last'.res = "RowAlreadyExists"]_vars

\* C8 amended: insert on a row that only a disktable holds does not return
\* RowAlreadyExists; it creates the memtable row as for an absent row.
C8_InsertFlushedRowSucceeds ==
    [][(StepOf("insert") /\ OnlyInDisktable(base, last'.row))
         => /\ last'.res # "RowAlreadyExists"
            /\ last'.res = "Done" => HoldsNewRow(base', disk', last')]_vars

\* an insert returned Done for a row that a disktable held already
C8_Witness ==
    /\ last.op = "insert" /\ last.res = "Done" /\ ~last.flushed
    /\ last.row \in DOMAIN base.memtable
    /\ \E t \in Range(base.disktables) : last.row \in HeaderKeys(t)

\* C9: update on a row absent from the memtable returns Done, never
\* RowNotFound, having created the row as insert would and appended one
\* commit log record.
C9_UpdateTotal ==
    [][(StepOf("update") /\ last'.row \notin DOMAIN base.memtable)
         => /\ last'.res = "Done"
            /\ HoldsNewRow(base', disk', last')
            /\ disk'.commit_log =
                 IF last'.flushed THEN <<>>
                 ELSE Append(disk.commit_log,
                             CommitLogEntry(last'.row, last'.updates, last'.timestamp))]_vars

\* C10: select returns RowNotFound exactly when no source holds the row, and
\* otherwise Data with one element per requested column.
Found(r, row, cols) ==
    IF row \in HeldRows(base)
    THEN r.kind = "Data" /\ Len(r.columns) = Len(cols)
    ELSE r.kind = "RowNotFound"

C10_SelectRowNotFound ==
    up => \A row \in Keys, cols \in ColLists, T \in QueryTimes :
              Found(BaseSelect(base, disk, row, cols, T), row, cols)

\* the memtable `after` keeps every row, column and entry of `before`
Keeps(after, before) ==
    \A r \in DOMAIN before :
        /\ r \in DOMAIN after
        /\ \A c \in DOMAIN before[r] :
              /\ c \in DOMAIN after[r]
              /\ Range(before[r][c]) \subseteq Range(after[r][c])

\* the engine `b` holds the entries of the write w in its memtable and
\* select returns each of them at the write's timestamp
HoldsWrite(b, d, w) ==
    /\ w.row \in DOMAIN b.memtable
    /\ \A c \in UpdateCols(w.updates) :
          /\ c \in DOMAIN b.memtable[w.row]
          /\ DEntry(w.timestamp, LastUpdateOf(w.updates, c).value)
                \in Range(b.memtable[w.row][c])
          /\ BaseSelect(b, d, w.row, <<c>>, w.timestamp)
                = Data(<<<<LastUpdateOf(w.updates, c).value>>>>)

\* C11: a write whose commit fails returns PartialCommit and the memtable is
\* not rolled back: it keeps what it held and the entries of the write,
\* select returns each written value at the write's timestamp, and an insert
\* of the same key that follows returns RowAlreadyExists.
C11_PartialCommitNotRolledBack ==
    [][/\ ((StepOf("insert") \/ StepOf("update")) /\ last'.res = "PartialCommit")
            => /\ Keeps(base'.memtable, base.memtable)
               /\ HoldsWrite(base', disk', last')
       /\ (last.res = "PartialCommit" /\ StepOf("insert") /\ last'.row = last.row)
            => last'.res = "RowAlreadyExists"]_vars

LogMatches(b, d) ==
    /\ ~Torn(d.commit_log)
    /\ Replay(Dead(b), d.commit_log).memtable = b.memtable

HeaderKeySeq(table) == [i \in 1..Len(table.lookup) |-> table.lookup[i].key]

\* the disktable list `after` is the list `before` (collapsed into one
\* disktable first when it was full) with one disktable appended, whose
\* header names exactly `keys`
AppendedOne(before, after, limit, keys) ==
    /\ after # <<>>
    /\ HeaderKeySeq(after[Len(after)]) = SortedSeq(keys)
    /\ IF Len(before) + 1 > limit
       THEN Len(after) = 2
       ELSE SubSeq(after, 1, Len(after) - 1) = before

\* the engine after a minor compaction of a memtable that held `keys`
FlushedAll(keys) ==
    /\ base'.memtable = EmptyMap
    /\ disk'.commit_log = <<>>
    /\ AppendedOne(base.disktables, base'.disktables, base.disktable_limit, keys)

\* C13: after a successful empty_memtable, called directly or by a write that
\* exceeded the size limit, the memtable is empty, the commit log is empty and
\* one disktable has been appended at the end of the list whose header keys
\* are exactly the row keys the memtable held when the compaction started.
C13_EmptyMemtableResult ==
    [][/\ (StepOf("empty_memtable") /\ last'.res = "Ok")
            => FlushedAll(DOMAIN base.memtable)
       /\ ((StepOf("insert") \/ StepOf("update")) /\ last'.res = "Done"
             /\ base'.disktable_index # base.disktable_index)
            => FlushedAll(DOMAIN base.memtable \cup {last'.row})]_vars

\* a write exceeded the size limit and its minor compaction, which first
\* merged two disktables, appended the table of the memtable
C13_Witness ==
    /\ up /\ last.op \in {"insert", "update"} /\ last.res = "Done" /\ last.flushed
    /\ Len(base.disktables) = 2
    /\ base.disktable_index = 4
    /\ HeaderKeySeq(base.disktables[2]) = <<last.row>>

\* the sum of len(column name) + len(value bytes) over an update list
UpdateBytes(updates) ==
    SumSeq([i \in 1..Len(updates) |-> KeyLen(updates[i].key) + ValueLen(updates[i].value)])

\* C14: after an insert or update that returns Done, a minor compaction was
\* performed during the call if and only if the memtable's size after applying
\* the write was strictly greater than memtable_size_limit; and the memtable's
\* size is then at most memtable_size_limit.
C14_AutomaticMinorCompaction ==
    [][((StepOf("insert") \/ StepOf("update")) /\ last'.res = "Done")
         => /\ (base'.disktable_index # base.disktable_index)
                 <=> (base.memsize + UpdateBytes(last'.updates) > base.memtable_size_limit)
            /\ (base'.disktable_index # base.disktable_index)
                 => FlushedAll(DOMAIN base.memtable \cup {last'.row})
            /\ (base'.disktable_index = base.disktable_index)
                 => /\ base'.disktables = base.disktables
                    /\ base'.memtable # EmptyMap
            /\ base'.memsize <= base'.memtable_size_limit]_vars

\* a write has just run a minor compaction, and the memtable is within its limit
C14_Witness ==
    /\ up /\ last.op \in {"insert", "update"} /\ last.res = "Done"
    /\ base.memtable = EmptyMap /\ base.memsize = 0
    /\ base.disktables # <<>> /\ disk.commit_log = <<>>
    /\ UpdateBytes(last.updates) > base.memtable_size_limit

\* the sum of len(column name) + len(value bytes) over the records of a log
RECURSIVE LogBytes(_)
LogBytes(log) ==
    IF log = <<>> THEN 0 ELSE UpdateBytes(Head(log).updates) + LogBytes(Tail(log))

C16_DisktableCountWithinLimit ==
    up => Len(base.disktables) <= base.disktable_limit

\* two of the disktables name the same row key
SharedKey(tables) ==
    \E i, j \in 1..Len(tables) :
        i < j /\ HeaderKeys(tables[i]) \cap HeaderKeys(tables[j]) # {}

\* C17: merge_disktables on disktables that share a row key completes: it
\* returns Ok, the disktable list becomes the single new disktable, and that
\* disktable's header names every distinct input key exactly once.
C17_MergeSharedKeys ==
    [][(StepOf("merge_disktables") /\ SharedKey(base.disktables))
         => /\ last'.res = "Ok"
            /\ up'
            /\ Len(base'.disktables) = 1
            /\ HeaderKeySeq(base'.disktables[1])
                 = SortedSeq(UNION {HeaderKeys(base.disktables[i]) :
                                       i \in 1..Len(base.disktables)})]_vars

\* the serialized form of a memtable row: its column names in order and the
\* entries of each
DRowOf(columns) ==
    [keys |-> SortedSeq(DOMAIN columns),
     columns |-> [i \in 1..Cardinality(DOMAIN columns) |->
                    columns[SortedSeq(DOMAIN columns)[i]]]]

\* a step that ran a minor compaction to its end, and the rows it flushed
MinorCompactionStep ==
    \/ StepOf("empty_memtable") /\ last'.res = "Ok"
    \/ /\ StepOf("insert") \/ StepOf("update")
       /\ last'.res = "Done"
       /\ base'.disktable_index # base.disktable_index

FlushedRows ==
    IF StepOf("insert")
    THEN MTableInsert(base.memtable, last'.row, last'.updates, last'.timestamp).rows
    ELSE IF StepOf("update")
    THEN MTableUpdate(base.memtable, last'.row, last'.updates, last'.timestamp).rows
    ELSE base.memtable

\* C18: for every disktable produced by a minor compaction and every key in
\* its header, at any position, get_row(key) decodes exactly the row the
\* memtable held for that key when it was flushed: the same column names in
\* the same order and the same entries, and nothing of any other row.
C18_HeaderDataConsistency ==
    [][MinorCompactionStep
         => \A k \in DOMAIN FlushedRows :
               DTableGetRow(disk'.dfiles, base'.disktables[Len(base'.disktables)], k)
                 = [err |-> None, row |-> <<DRowOf(FlushedRows[k])>>]]_vars

\* C19: for a header with entries 0..N-1 and the key at index i, the region
\* get_row_offset and get_offset_from_index return has start = offset[i], and
\* length = offset[i+1] - offset[i] when i < N-1, None when i = N-1.
C19_RegionLength ==
    \A t \in 1..Len(base.disktables) :
        \A i \in 1..Len(base.disktables[t].lookup) :
            \E lookup \in {base.disktables[t].lookup} :
                /\ GetOffsetFromIndex(lookup, i)
                     = [start |-> lookup[i].offset,
                        length |-> IF i = Len(lookup) THEN <<>>
                                   ELSE <<lookup[i + 1].offset - lookup[i].offset>>]
                /\ GetRowOffset(lookup, lookup[i].key) = <<GetOffsetFromIndex(lookup, i)>>

StrictlySorted(lookup) ==
    \A i \in 1..(Len(lookup) - 1) : lookup[i].key < lookup[i + 1].key

\* C20: every disktable header a minor or a major compaction produced, on
\* disk or in the disktable list, is strictly sorted by key:
\* header[i].key < header[i+1].key for all valid i.
C20_HeadersStrictlySorted ==
    /\ \A n \in DOMAIN disk.hfiles : StrictlySorted(disk.hfiles[n])
    /\ \A t \in 1..Len(base.disktables) : StrictlySorted(base.disktables[t].lookup)

\* a major compaction has produced a header of two keys from two disktables
C20_Witness ==
    /\ up /\ last.op = "merge_disktables" /\ last.res = "Ok"
    /\ Len(base.disktables) = 1
    /\ Len(base.disktables[1].lookup) >= 2
    /\ base.disktables[1].filename \in DOMAIN disk.hfiles
    /\ disk.hfiles[base.disktables[1].filename] = base.disktables[1].lookup
    /\ \E n \in DOMAIN disk.hfiles : Len(disk.hfiles[n]) = 1

\* the positions of the disktable list that hold a disktable the step created
NewTables ==
    {i \in 1..Len(base'.disktables) : base'.disktables[i] \notin Range(base.disktables)}

\* C21: disktable_index never decreases; every minor and major compaction
\* that completes strictly increases it; after load() it is at least the
\* largest <N> of the <N>.dtable files in the directory; and no compaction
\* writes a disktable under the index of a data file that already exists,
\* whether it existed before the call or was created earlier in the call.
C21_IndexMonotonic ==
    [][/\ (up /\ up') => base'.disktable_index >= base.disktable_index
       /\ (MinorCompactionStep \/ (StepOf("merge_disktables") /\ last'.res = "Ok"))
            => base'.disktable_index > base.disktable_index
       /\ (StepOf("load") /\ last'.res = "Ok")
            => \A n \in DOMAIN disk.dfiles : base'.disktable_index >= n
       /\ (up /\ up')
            => /\ \A i \in NewTables : base'.disktables[i].filename \notin DOMAIN disk.dfiles
               /\ \A i, j \in NewTables :
                     i # j => base'.disktables[i].filename # base'.disktables[j].filename]_vars

\* C22: after a major compaction followed by a restart, the disktables load()
\* leaves are the ones that were live before the shutdown: the merged
\* disktable and any created after it, and none that the merge superseded.
C22_SupersededNotReloaded ==
    [][(StepOf("restart") /\ last'.res = "Ok")
         => /\ Len(base'.disktables) = Len(base.disktables)
            /\ base'.disktables = base.disktables]_vars

\* C23: every insert, update and select, in every reachable state, returns
\* one of the QueryResult variants; it never aborts the process, also when
\* the write runs an automatic minor or major compaction.
C23_OperationsReturn ==
    last.op \in {"insert", "update", "select"} => (up /\ last.res \in QueryResults)

\* a disktable names the row in its header and get_row fails on it
GetRowFails(b, d, row) ==
    \E t \in 1..Len(b.disktables) :
        /\ row \in HeaderKeys(b.disktables[t])
        /\ DTableGetRow(d.dfiles, b.disktables[t], row).err = IoError

\* C24: when a disktable holds the requested key in its header and get_row
\* fails on it with an I/O or decoding error, select returns InternalError.
C24_ReadErrorSurfaced ==
    up => \A row \in Keys, cols \in ColLists, T \in QueryTimes :
              GetRowFails(base, disk, row)
                  => BaseSelect(base, disk, row, cols, T).kind = "InternalError"

\* the commit log ends at a record boundary and holds whole records only
CleanLog(log) == \A i \in 1..Len(log) : log[i] \notin {TornEntry, TornPrefix}

\* C25: load() returns Ok only when the commit log ends exactly at a record
\* boundary; a tail that is a length prefix of 1 to 3 bytes, or a record
\* shorter than its length prefix, makes it return CorruptedFiles.
C25_ReplayRejectsTornTail ==
    [][StepOf("load")
         => /\ last'.res = "Ok" => CleanLog(disk.commit_log)
            /\ ~CleanLog(disk.commit_log) => last'.res = "CorruptedFiles"]_vars

\* the directory holds a structurally invalid disktable
InvalidDisktable(d) ==
    \E name \in DOMAIN d.dfiles :
        \/ name \in ForeignNames
        \/ name \notin DOMAIN d.hfiles
        \/ d.hfiles[name] = BadHeader

\* C26: load() fails with CorruptedFiles, and the engine does not start
\* serving, whenever the directory holds a *.dtable file whose name is not
\* <digits>.dtable, a data file without its header file, or a header that
\* cannot be parsed.
C26_InvalidDisktableFatal ==
    [][(StepOf("load") /\ InvalidDisktable(disk))
         => /\ last'.res = "CorruptedFiles"
            /\ ~up'
            /\ base'.disktables = <<>>]_vars

\* load has refused a directory that holds, after a valid disktable, a
\* data file whose header does not parse
C26_Witness ==
    /\ ~up /\ last.op = "load" /\ last.res = "CorruptedFiles"
    /\ CleanLog(disk.commit_log)
    /\ \E m, n \in DOMAIN disk.dfiles :
          /\ m < n /\ m >= 1
          /\ m \in DOMAIN disk.hfiles /\ disk.hfiles[m] # BadHeader
          /\ n \in DOMAIN disk.hfiles /\ disk.hfiles[n] = BadHeader

Ascending(entries) ==
    \A i \in 1..(Len(entries) - 1) : entries[i].timestamp <= entries[i + 1].timestamp

\* C27: after any sequence of inserts and updates with timestamps in any
\* order, also decreasing or repeated, every column of every memtable row has
\* entries[i].timestamp <= entries[i+1].timestamp for all valid i.
C27_TimestampMonotonic ==
    \A r \in DOMAIN base.memtable :
        \A c \in DOMAIN base.memtable[r] : Ascending(base.memtable[r][c])

\* an update at timestamp 0 has put its entry before the entries of two
\* earlier writes at timestamps 2 and 1
C27_Witness ==
    /\ last.op = "update" /\ last.res = "Done" /\ last.timestamp = 0
    /\ 1 \in DOMAIN base.memtable /\ 1 \in DOMAIN base.memtable[1]
    /\ [i \in 1..Len(base.memtable[1][1]) |-> base.memtable[1][1][i].timestamp] = <<0, 1, 2>>
    /\ base.memtable[1][1][1].value = 3
    /\ base.memtable[1][1][3].value = 1

\* what MTable.select owes for one column at timestamp T: an entry of the
\* column with the largest timestamp <= T, or None when the column does not
\* exist or every entry is later than T
LargestAtMost(columns, c, T, v) ==
    IF c \notin DOMAIN columns \/ \A i \in 1..Len(columns[c]) : columns[c][i].timestamp > T
    THEN v = <<>>
    ELSE /\ v # <<>>
         /\ \E i \in 1..Len(columns[c]) : columns[c][i] = v[1]
         /\ v[1].timestamp <= T
         /\ \A i \in 1..Len(columns[c]) :
               columns[c][i].timestamp <= T => columns[c][i].timestamp <= v[1].timestamp

\* C28: MTable.select(key, cols, t) on a present row returns, for each
\* requested column, the entry with the largest timestamp <= t, and None for
\* a column that does not exist or whose entries are all later than t; it
\* never returns an entry whose timestamp is greater than t.
C28_MTableSelectAtMost ==
    \A row \in DOMAIN base.memtable, cols \in ColLists, T \in QueryTimes :
        /\ MTableSelect(base.memtable, row, cols, T).some
        /\ \A i \in 1..Len(cols) :
              LargestAtMost(base.memtable[row], cols[i], T,
                            MTableSelect(base.memtable, row, cols, T).row[i])

\* v is Some(an entry of the column with the greatest timestamp <= T)
GreatestAtMost(entries, T, v) ==
    /\ v # <<>>
    /\ \E i \in 1..Len(entries) : entries[i] = v[1]
    /\ v[1].timestamp <= T
    /\ \A i \in 1..Len(entries) :
          entries[i].timestamp <= T => entries[i].timestamp <= v[1].timestamp

\* C29: DColumn.get_value(T) returns the entry with the greatest timestamp
\* <= T, when there is one, both on a column stored in ascending timestamp
\* order and on a column stored in descending order.
C29_ReaderEitherDirection ==
    (last.op = "get_value" /\ \E i \in 1..Len(last.entries) : last.entries[i].timestamp <= last.timestamp)
        => GreatestAtMost(last.entries, last.timestamp, last.value)


\* ---- the server: request handlers sharing the engine behind one mutex ----

\* the queries handler h may receive: an insert or an update of row 1 that
\* carries the handler's number as its value, or a select of row 1
Queries(h) ==
    {[kind |-> "insert", row |-> 1, updates |-> <<MUpdate(1, h)>>, cols |-> <<>>],
     [kind |-> "update", row |-> 1, updates |-> <<MUpdate(1, h)>>, cols |-> <<>>],
     [kind |-> "select", row |-> 1, updates |-> <<>>, cols |-> <<1>>]}

Result(kind) == [kind |-> kind, columns |-> <<>>]

\* the memtable part of a write: MTable::insert or MTable::update
QueryMemtable(b, q, timestamp) ==
    IF q.kind = "insert"
    THEN MTableInsert(b.memtable, q.row, q.updates, timestamp)
    ELSE MTableUpdate(b.memtable, q.row, q.updates, timestamp)

\* what a write returns when the memtable refuses it
QueryRefusal(q, m) ==
    IF q.kind = "insert" THEN Result("RowAlreadyExists") ELSE Result(DirectUpdate(m))

QueryRefused(q, m) ==
    IF q.kind = "insert" THEN m.err = AlreadyExists ELSE DirectUpdate(m) # "Done"

\* the tail of a write: commit, then check_size_limits
QueryCommit(b, d, q, timestamp) ==
    CheckSizeLimits(b, Commit(d, q.row, q.updates, timestamp))

\* Base::query run from start to end on the engine (b, d) by one caller
QueryWritten(b, d, q, timestamp, m) ==
    IF QueryRefused(q, m)
    THEN [base |-> b, disk |-> d, result |-> QueryRefusal(q, m)]
    ELSE \* the write reaches the memtable, then the log
         [base |-> QueryCommit([b EXCEPT !.memtable = m.rows,
                                         !.memsize = Grow(@, q.updates)],
                               d, q, timestamp).base,
          disk |-> QueryCommit([b EXCEPT !.memtable = m.rows,
                                         !.memsize = Grow(@, q.updates)],
                               d, q, timestamp).disk,
          result |-> Result("Done")]

BaseQuery(b, d, q, timestamp) ==
    IF q.kind = "select"
    THEN [base |-> b, disk |-> d,
          result |-> BaseSelect(b, d, q.row, q.cols, timestamp)]
    ELSE QueryWritten(b, d, q, timestamp, QueryMemtable(b, q, timestamp))

\* a handler's fields
Handler(h) == server.handlers[h]

Moved(h, pc) == [server EXCEPT !.handlers[h].pc = pc]

Returned(h, result) ==
    [server EXCEPT !.handlers[h].pc = "returned", !.handlers[h].result = result]

\* RequestHandler::handle, Query::from_bytes: the request is parsed before
\* the lock is asked for
Receive(h, q) ==
    /\ Handler(h).pc = "idle"
    /\ server' = [server EXCEPT !.handlers[h].pc = "parsed",
                                !.handlers[h].query = q]
    /\ UNCHANGED <<up, base, disk, last, acked, snap, nwrites, nrestarts>>

\* a lock() that returns whoever holds the mutex
AcquireUnguarded(h) ==
    /\ up
    /\ Handler(h).pc = "parsed"
    /\ server' = [server EXCEPT !.lock = h,
                                !.clock = @ + 1,
                                !.served = Append(@, h),
                                !.handlers[h].pc = "locked",
                                !.handlers[h].timestamp = server.clock + 1]
    /\ UNCHANGED <<up, base, disk, last, acked, snap, nwrites, nrestarts>>

\* self.database.lock().unwrap() returns once the mutex is free and not
\* poisoned; query_now then reads the clock
Acquire(h) ==
    /\ up
    /\ server.lock = 0
    /\ Handler(h).pc = "parsed"
    /\ server' = [server EXCEPT !.lock = h,
                                !.clock = @ + 1,
                                !.served = Append(@, h),
                                !.handlers[h].pc = "locked",
                                !.handlers[h].timestamp = server.clock + 1]
    /\ UNCHANGED <<up, base, disk, last, acked, snap, nwrites, nrestarts>>

\* a panic under the lock: the handler's thread unwinds and the mutex stays
\* poisoned, so no later query reaches the engine
Poisoned(h) ==
    /\ up' = FALSE
    /\ base' = Dead(base)
    /\ server' = Moved(h, "panicked")

\* the first half of Base::query under the lock: a select runs whole, a
\* write changes the memtable or is refused
Apply(h) ==
    /\ up
    /\ Handler(h).pc = "locked"
    /\ IF Handler(h).query.kind = "select"
       THEN \E r \in {BaseSelect(base, disk, Handler(h).query.row,
                                 Handler(h).query.cols, Handler(h).timestamp)} :
                IF r.kind = "Panic"
                THEN Poisoned(h)
                ELSE /\ server' = Returned(h, r)
                     /\ UNCHANGED <<up, base>>
       ELSE \E m \in {QueryMemtable(base, Handler(h).query, Handler(h).timestamp)} :
                /\ up' = up
                /\ IF QueryRefused(Handler(h).query, m)
                   THEN /\ server' = Returned(h, QueryRefusal(Handler(h).query, m))
                        /\ base' = base
                   ELSE /\ server' = Moved(h, "applied")
                        /\ base' = [base EXCEPT !.memtable = m.rows,
                                                !.memsize = Grow(@, Handler(h).query.updates)]
    /\ UNCHANGED <<disk, last, acked, snap, nwrites, nrestarts>>

\* the second half of a write under the lock: commit, check_size_limits, Done
CommitAndCheck(h) ==
    /\ up
    /\ Handler(h).pc = "applied"
    /\ \E c \in {QueryCommit(base, disk, Handler(h).query, Handler(h).timestamp)} :
           /\ c.base.disktable_index <= MaxIndex
           /\ disk' = c.disk
           /\ IF c.status = "Ok"
              THEN /\ base' = c.base
                   /\ up' = up
                   /\ server' = Returned(h, Result("Done"))
              ELSE Poisoned(h)
    /\ UNCHANGED <<last, acked, snap, nwrites, nrestarts>>

\* the guard is dropped at the end of the statement; the response is written
\* after it
Release(h) ==
    /\ Handler(h).pc = "returned"
    /\ server' = [server EXCEPT !.lock = IF @ = h THEN 0 ELSE @,
                                !.handlers[h].pc = "done"]
    /\ UNCHANGED <<up, base, disk, last, acked, snap, nwrites, nrestarts>>

InitServer == InitWith(LargeSizeLimit, DisktableLimit)

NextServer ==
    \/ \E h \in Handlers : \E q \in Queries(h) : Receive(h, q)
    \/ \E h \in Handlers : Acquire(h)
    \/ \E h \in Handlers : Apply(h)
    \/ \E h \in Handlers : CommitAndCheck(h)
    \/ \E h \in Handlers : Release(h)

SpecServer == InitServer /\ [][NextServer]_vars

\* the engine and the results after the queries of the handlers hs have run
\* one at a time, in that order, from the engine (b, d)
RECURSIVE OneAtATime(_, _, _, _)
OneAtATime(b, d, hs, results) ==
    IF hs = <<>> THEN [base |-> b, disk |-> d, results |-> results]
    ELSE OneAtATime(
            BaseQuery(b, d, Handler(Head(hs)).query, Handler(Head(hs)).timestamp).base,
            BaseQuery(b, d, Handler(Head(hs)).query, Handler(Head(hs)).timestamp).disk,
            Tail(hs),
            Append(results,
                   BaseQuery(b, d, Handler(Head(hs)).query,
                             Handler(Head(hs)).timestamp).result))

InLockOrder(hs) ==
    OneAtATime(BaseNew(LargeSizeLimit, DisktableLimit), EmptyDisk, hs, <<>>)

UnderLock(h) == Handler(h).pc \in {"locked", "applied", "returned"}

\* the handlers whose query has run to its end, in the order they took the lock
Finished ==
    IF server.served # <<>>
       /\ Handler(server.served[Len(server.served)]).pc \in {"locked", "applied"}
    THEN SubSeq(server.served, 1, Len(server.served) - 1)
    ELSE server.served

\* C30: with several handlers running against the one mutex-guarded engine, at
\* most one query is between its lock and its unlock, the engine outside a
\* write's two steps is the one that running the finished queries one at a time
\* in lock order gives, and every finished query's result is the one that
\* order gives it.
C30_QueriesSerialized ==
    /\ \A h \in Handlers : UnderLock(h) => server.lock = h
    /\ (\E h \in Handlers : Handler(h).pc = "applied") \/
          /\ base = InLockOrder(Finished).base
          /\ disk = InLockOrder(Finished).disk
    /\ \A i \in 1..Len(Finished) :
          Handler(Finished[i]).result = InLockOrder(Finished).results[i]

\* both handlers have been answered, handler 2 having taken the lock first:
\* its insert made the row and handler 1's insert was refused
C30_Witness ==
    /\ server.served = <<2, 1>>
    /\ Handler(1).pc = "done" /\ Handler(2).pc = "done"
    /\ Handler(2).query.kind = "insert" /\ Handler(2).result.kind = "Done"
    /\ Handler(1).query.kind = "insert" /\ Handler(1).result.kind = "RowAlreadyExists"
    /\ base.memtable[1][1][1].value = 2

\* C31: calling empty_memtable twice with no write in between succeeds both
\* times; the second call puts a disktable with zero rows at the end of the
\* list, leaves the memtable and the commit log empty, and changes no select
\* result.
C31_FlushIdempotent ==
    [][(last.op = "empty_memtable" /\ last.res = "Ok" /\ StepOf("empty_memtable"))
         => /\ last'.res = "Ok"
            /\ base'.memtable = EmptyMap
            /\ disk'.commit_log = <<>>
            /\ base'.disktables # <<>>
            /\ base'.disktables[Len(base'.disktables)].lookup = <<>>
            /\ AllSelects(base', disk') = AllSelects(base, disk)]_vars

\* the largest index of an entry with timestamp <= t, 0 when there is none
LastAtOrBefore(entries, t) ==
    IF \A i \in 1..Len(entries) : entries[i].timestamp > t THEN 0
    ELSE CHOOSE i \in 1..Len(entries) :
             /\ entries[i].timestamp <= t
             /\ \A j \in (i + 1)..Len(entries) : entries[j].timestamp > t

RECURSIVE PlacedAll(_, _, _)
PlacedAll(entries, updates, t) ==
    IF updates = <<>> THEN entries
    ELSE PlacedAll(SubSeq(entries, 1, LastAtOrBefore(entries, t))
                     \o <<DEntry(t, Head(updates).value)>>
                     \o SubSeq(entries, LastAtOrBefore(entries, t) + 1, Len(entries)),
                   Tail(updates), t)

\* the values written in SpecMem tell the order of insertion: write n carries
\* n, and n + 10 for the second update of its list
InsertedAfter(a, b) ==
    \/ a.value % 10 > b.value % 10
    \/ a.value % 10 = b.value % 10 /\ a.value > b.value

UpdatedExisting ==
    /\ StepOf("update") /\ last'.res = "Done"
    /\ last'.row \in DOMAIN base.memtable
    /\ 1 \in DOMAIN base.memtable[last'.row]

\* C32: MRow.update on an existing column inserts each new entry right after
\* the last entry with timestamp <= t (at position 0 when there is none), so
\* entries with equal timestamps stay in insertion order, and a select at a
\* timestamp that entries carry returns the last inserted of them.
C32_EqualTimestampsKeepOrder ==
    /\ [](\A r \in DOMAIN base.memtable : \A c \in DOMAIN base.memtable[r] :
            /\ \A i, j \in 1..Len(base.memtable[r][c]) :
                  (i < j /\ base.memtable[r][c][i].timestamp = base.memtable[r][c][j].timestamp)
                     => InsertedAfter(base.memtable[r][c][j], base.memtable[r][c][i])
            /\ \A i \in 1..Len(base.memtable[r][c]) :
                  \E v \in {MTableSelect(base.memtable, r, <<c>>,
                                         base.memtable[r][c][i].timestamp).row[1]} :
                      /\ v # <<>>
                      /\ v[1].timestamp = base.memtable[r][c][i].timestamp
                      /\ v[1] = base.memtable[r][c][i]
                           \/ InsertedAfter(v[1], base.memtable[r][c][i]))
    /\ [][UpdatedExisting
            => base'.memtable[last'.row][1]
                 = PlacedAll(base.memtable[last'.row][1], last'.updates, last'.timestamp)]_vars

\* the third write, an update of two values at timestamp 1, found two entries
\* at timestamp 1 and one at timestamp 2: its values went between them in the
\* order given, and a select at timestamp 1 returns the second of them
C32_Witness ==
    /\ last.op = "update" /\ last.res = "Done" /\ last.timestamp = 1
    /\ 1 \in DOMAIN base.memtable /\ 1 \in DOMAIN base.memtable[1]
    /\ [i \in 1..Len(base.memtable[1][1]) |-> base.memtable[1][1][i].timestamp]
         = <<1, 1, 1, 2>>
    /\ [i \in 1..Len(base.memtable[1][1]) |-> base.memtable[1][1][i].value]
         = <<2, 3, 13, 1>>
    /\ MTableSelect(base.memtable, 1, <<1>>, 1).row[1] = <<DEntry(1, 13)>>

\* ---- DColumn::from_vec: the multiway merge of columns ----

\* a fold that takes the first iterator that still has an entry
RECURSIVE PickColumnFirst(_, _, _, _)
PickColumnFirst(cols, pos, j, acc) ==
    IF j > Len(cols) THEN acc
    ELSE IF pos[j] > Len(cols[j]) \/ acc # 0 THEN PickColumnFirst(cols, pos, j + 1, acc)
    ELSE PickColumnFirst(cols, pos, j + 1, j)

\* the fold over the peeked iterators: acc is the index chosen so far, 0 for
\* None; a later iterator replaces it only with a strictly greater timestamp
RECURSIVE PickColumn(_, _, _, _)
PickColumn(cols, pos, j, acc) ==
    IF j > Len(cols) THEN acc
    ELSE IF pos[j] > Len(cols[j]) THEN PickColumn(cols, pos, j + 1, acc)
    ELSE IF acc = 0 THEN PickColumn(cols, pos, j + 1, j)
    ELSE IF cols[acc][pos[acc]].timestamp >= cols[j][pos[j]].timestamp
    THEN PickColumn(cols, pos, j + 1, acc)
    ELSE PickColumn(cols, pos, j + 1, j)

\* the loop: push the chosen iterator's next entry, stop when none has one
RECURSIVE MergeColumns(_, _, _, _)
MergeColumns(cols, pos, output, index) ==
    IF index = 0 THEN output
    ELSE MergeColumns(cols, [pos EXCEPT ![index] = @ + 1],
                      Append(output, cols[index][pos[index]]),
                      PickColumn(cols, [pos EXCEPT ![index] = @ + 1], 1, 0))

DColumnFromVec(cols) ==
    MergeColumns(cols, [j \in 1..Len(cols) |-> 1], <<>>,
                 PickColumn(cols, [j \in 1..Len(cols) |-> 1], 1, 0))

\* the j-th input column of a merge: entry i carries the value 10 * j + i
MergeColumn(j, ts) == [i \in 1..Len(ts) |-> DEntry(ts[i], 10 * j + i)]

DescendingTimes(n) ==
    {s \in UNION {[1..k -> Timestamps] : k \in 0..n} :
        \A i \in 1..(Len(s) - 1) : s[i] >= s[i + 1]}

\* lists of up to two columns of up to MaxLen entries, and of three shorter ones
ColumnPairs ==
    {<<>>} \cup {<<MergeColumn(1, a)>> : a \in DescendingTimes(MaxLen)}
           \cup {<<MergeColumn(1, a), MergeColumn(2, b)>> :
                    a \in DescendingTimes(MaxLen), b \in DescendingTimes(MaxLen)}

ColumnTriples ==
    {<<MergeColumn(1, a), MergeColumn(2, b), MergeColumn(3, c)>> :
        a \in DescendingTimes(MaxLen - 1), b \in DescendingTimes(MaxLen - 1),
        c \in DescendingTimes(MaxLen - 1)}

\* a call of DColumn::from_vec on a fresh list of columns, and what it returned
ColumnFromVec(cols) ==
    /\ up
    /\ last.op = "new"
    /\ last' = [op |-> "column_from_vec", cols |-> cols, column |-> DColumnFromVec(cols)]
    /\ UNCHANGED <<up, base, disk, acked, snap, nwrites, nrestarts, server>>

InitMergeColumns == InitWith(LargeSizeLimit, DisktableLimit)

NextMergeColumns ==
    \/ \E cols \in ColumnPairs : ColumnFromVec(cols)
    \/ \E cols \in ColumnTriples : ColumnFromVec(cols)

SpecMergeColumns == InitMergeColumns /\ [][NextMergeColumns]_vars

NonIncreasing(entries) ==
    \A i \in 1..(Len(entries) - 1) : entries[i].timestamp >= entries[i + 1].timestamp

\* C33: for input columns each sorted by non-increasing timestamp,
\* DColumn::from_vec returns a column that holds every input entry exactly
\* once (its length is the sum of the input lengths) and is sorted by
\* non-increasing timestamp.
C33_ColumnMergeKeepsHistory ==
    last.op = "column_from_vec"
        => /\ Len(last.column) = SumSeq([j \in 1..Len(last.cols) |-> Len(last.cols[j])])
           /\ \A j \in 1..Len(last.cols) : \A i \in 1..Len(last.cols[j]) :
                 Cardinality({k \in 1..Len(last.column) :
                                 last.column[k] = last.cols[j][i]}) = 1
           /\ NonIncreasing(last.column)

\* three columns with timestamps (2, 0), (2, 1) and (1, 0) were merged: equal
\* timestamps come out in the order of the input columns
C33_Witness ==
    /\ last.op = "column_from_vec"
    /\ Len(last.cols) = 3
    /\ last.column = <<DEntry(2, 11), DEntry(2, 21), DEntry(1, 22), DEntry(1, 31),
                       DEntry(0, 12), DEntry(0, 32)>>

\* ---- DRow::from_vec: the merge of rows that have the same key ----

\* the fold over the peeked key iterators: acc.ix lists the rows whose next
\* column name is the smallest seen so far (<<>> for None), acc.key is that name
RECURSIVE PickKeys(_, _, _, _)
PickKeys(rows, kpos, i, acc) ==
    IF i > Len(rows) THEN acc
    ELSE IF kpos[i] > Len(rows[i].keys) THEN PickKeys(rows, kpos, i + 1, acc)
    ELSE IF acc.ix = <<>> \/ rows[i].keys[kpos[i]] < acc.key
    THEN PickKeys(rows, kpos, i + 1, [ix |-> <<i>>, key |-> rows[i].keys[kpos[i]]])
    ELSE IF rows[i].keys[kpos[i]] = acc.key
    THEN PickKeys(rows, kpos, i + 1, [acc EXCEPT !.ix = Append(@, i)])
    ELSE PickKeys(rows, kpos, i + 1, acc)

NoKeys == [ix |-> <<>>, key |-> 0]

IndexOutOfBounds == [status |-> "Panic", keys |-> <<>>, columns |-> <<>>]

\* the loop body.  kpos[i] is the position of row i's key iterator, indices[i]
\* the column of row i to copy next (from 1 here).  A single row is copied and
\* its iterator advanced; for several rows the columns at their indices are
\* merged and the indices advanced, the iterators left where they are.
RECURSIVE MergeRowStep(_, _, _, _, _, _)
MergeRowStep(rows, kpos, indices, keys, cols, p) ==
    IF p.ix = <<>> THEN [status |-> "Ok", keys |-> keys, columns |-> cols]
    ELSE IF \E m \in 1..Len(p.ix) : indices[p.ix[m]] > Len(rows[p.ix[m]].columns)
    THEN IndexOutOfBounds
    ELSE IF Len(p.ix) = 1
    THEN MergeRowStep(rows,
                      [kpos EXCEPT ![p.ix[1]] = @ + 1],
                      [indices EXCEPT ![p.ix[1]] = @ + 1],
                      Append(keys, p.key),
                      Append(cols, rows[p.ix[1]].columns[indices[p.ix[1]]]),
                      PickKeys(rows, [kpos EXCEPT ![p.ix[1]] = @ + 1], 1, NoKeys))
    ELSE MergeRowStep(rows,
                      kpos,
                      [i \in 1..Len(rows) |->
                          IF \E m \in 1..Len(p.ix) : p.ix[m] = i
                          THEN indices[i] + 1 ELSE indices[i]],
                      Append(keys, p.key),
                      Append(cols, DColumnFromVec([m \in 1..Len(p.ix) |->
                                       rows[p.ix[m]].columns[indices[p.ix[m]]]])),
                      PickKeys(rows, kpos, 1, NoKeys))

DRowFromVec(rows) ==
    MergeRowStep(rows, [i \in 1..Len(rows) |-> 1], [i \in 1..Len(rows) |-> 1],
                 <<>>, <<>>,
                 PickKeys(rows, [i \in 1..Len(rows) |-> 1], 1, NoKeys))

\* the j-th input row of a merge: sorted column names, one entry per column,
\* written at timestamp j
ColumnNames == {1, 2, 3}

MergeRow(j, names) ==
    [keys |-> SortedSeq(names),
     columns |-> [i \in 1..Cardinality(names) |->
                     <<DEntry(j, 10 * j + SortedSeq(names)[i])>>]]

RowPairs ==
    {<<MergeRow(1, a)>> : a \in SUBSET ColumnNames}
        \cup {<<MergeRow(1, a), MergeRow(2, b)>> :
                 a \in SUBSET ColumnNames, b \in SUBSET ColumnNames}

RowTriples ==
    {<<MergeRow(1, a), MergeRow(2, b), MergeRow(3, c)>> :
        a \in SUBSET ColumnNames, b \in SUBSET ColumnNames, c \in SUBSET ColumnNames}

\* a call of DRow::from_vec on a fresh list of rows, and what it returned
RowFromVec(rows) ==
    /\ up
    /\ last.op = "new"
    /\ last' = [op |-> "row_from_vec", rows |-> rows, row |-> DRowFromVec(rows)]
    /\ UNCHANGED <<up, base, disk, acked, snap, nwrites, nrestarts, server>>

InitMergeRows == InitWith(LargeSizeLimit, DisktableLimit)

NextMergeRows ==
    \/ \E rows \in RowPairs : RowFromVec(rows)
    \/ \E rows \in RowTriples : RowFromVec(rows)

SpecMergeRows == InitMergeRows /\ [][NextMergeRows]_vars

InputNames(rows) == UNION {Range(rows[j].keys) : j \in 1..Len(rows)}

\* C34: for input rows with sorted column names, rows that share names
\* included, DRow::from_vec returns a row whose key list is the sorted,
\* duplicate-free union of the input names, with as many columns as keys, in
\* which get_column finds every input column name.
C34_RowMergeUnion ==
    last.op = "row_from_vec"
        => /\ last.row.status = "Ok"
           /\ last.row.keys = SortedSeq(InputNames(last.rows))
           /\ Len(last.row.columns) = Len(last.row.keys)
           /\ \A name \in InputNames(last.rows) :
                 DRowGetColumn(last.row, name).err = None

\* the keys asked of a header: the row keys, one below them and one above
AskedKeys == Keys \cup {0, 4}

\* C35: in every disktable of the engine, get_row_offset(k_i) and
\* get_offset_from_index(i) return the same start and the same length for
\* every header index i, and get_row_offset returns None exactly for the keys
\* that are not in the header.
C35_OffsetMethodsAgree ==
    \A t \in 1..Len(base.disktables) :
        /\ \A i \in 1..Len(base.disktables[t].lookup) :
              /\ GetRowOffset(base.disktables[t].lookup, base.disktables[t].lookup[i].key) # <<>>
              /\ GetRowOffset(base.disktables[t].lookup, base.disktables[t].lookup[i].key)[1].start
                   = GetOffsetFromIndex(base.disktables[t].lookup, i).start
              /\ GetRowOffset(base.disktables[t].lookup, base.disktables[t].lookup[i].key)[1].length
                   = GetOffsetFromIndex(base.disktables[t].lookup, i).length
        /\ \A k \in AskedKeys :
              (GetRowOffset(base.disktables[t].lookup, k) = <<>>)
                 <=> (k \notin HeaderKeys(base.disktables[t]))

\* a disktable whose header names rows 1 and 2 and not row 3
C35_Witness ==
    \E t \in 1..Len(base.disktables) :
        /\ Len(base.disktables[t].lookup) = 2
        /\ HeaderKeys(base.disktables[t]) = {1, 2}
        /\ GetRowOffset(base.disktables[t].lookup, 2)
             = <<GetOffsetFromIndex(base.disktables[t].lookup, 2)>>
        /\ GetRowOffset(base.disktables[t].lookup, 1)[1].length # <<>>
        /\ GetRowOffset(base.disktables[t].lookup, 3) = <<>>

\* SpecSnapshot: writes of one column of one row at timestamps in any order,
\* each carrying its number as its value, compactions, and reads at every
\* timestamp
InitSnapshot == InitWith(LargeSizeLimit, DisktableLimit)

NextSnapshot ==
    \/ Writes(MaxRows, {1}, {<<MUpdate(1, nwrites + 1)>>}, Timestamps)
    \/ Reads({1}, {<<1>>}, QueryTimes)
    \/ Compactions

SpecSnapshot == InitSnapshot /\ [][NextSnapshot]_vars

\* C36: in every reachable engine state, a value Base.select(row, cols, T)
\* returns for a column was written by an entry of that column whose timestamp
\* is at most T, whatever candidates the memtable and the disktables gave.
C36_SnapshotReads ==
    \A row \in Keys, T \in QueryTimes :
        \E r \in {BaseSelect(base, disk, row, <<1>>, T)} :
            (r.kind = "Data" /\ r.columns[1] # <<>>)
               => /\ \E e \in acked : e.col = 1 /\ e.value = r.columns[1][1]
                  /\ \A e \in acked :
                        (e.col = 1 /\ e.value = r.columns[1][1]) => e.timestamp <= T

\* the memtable's candidate for a read at timestamp 1 is its only entry,
\* written at timestamp 2; select returns the value a disktable holds from
\* timestamp 1
C36_Witness ==
    /\ up
    /\ 1 \in DOMAIN base.memtable
    /\ MTableSelect(base.memtable, 1, <<1>>, 1).row[1] # <<>>
    /\ MTableSelect(base.memtable, 1, <<1>>, 1).row[1][1].timestamp = 2
    /\ base.disktables # <<>>
    /\ BaseSelect(base, disk, 1, <<1>>, 1).kind = "Data"
    /\ BaseSelect(base, disk, 1, <<1>>, 1).columns[1] # <<>>
    /\ \E e \in acked : e.value = BaseSelect(base, disk, 1, <<1>>, 1).columns[1][1]
                          /\ e.timestamp = 1

\* ---- Base::empty_memtable returning an error ----

\* the step whose `?` returns: the major compaction (its output file created,
\* or its rows copied), the creation of the header file, the creation of the
\* data file, write_to_writer, the syncs, the creation of the new commit log
EmptyFailPoints ==
    MergeCrashPoints \cup {"create_header", "create_data", "write", "sync", "truncate"}

EmptyFailError(point) ==
    IF point \in {"create_header", "write"} THEN "Problem" ELSE "CorruptedFiles"

\* the directory after the failing step; n is the index of the new files and
\* w what write_to_writer produces
EmptyFailWrite(d2, n, w, point) ==
    IF point = "create_header" THEN d2
    ELSE IF point = "create_data" THEN [d2 EXCEPT !.hfiles = WithFile(@, n, <<>>)]
    ELSE IF point = "write"
    THEN [d2 EXCEPT !.hfiles = WithFile(@, n, <<>>), !.dfiles = WithFile(@, n, <<>>)]
    ELSE [d2 EXCEPT !.hfiles = WithFile(@, n, w.header), !.dfiles = WithFile(@, n, w.data)]

\* the Base after the failing step: before the commit log is replaced the
\* memtable has been replaced and the new table pushed
EmptyFailBase(b2, w, point) ==
    IF point = "truncate"
    THEN [b2 EXCEPT !.memtable = EmptyMap, !.memsize = 0,
                    !.disktables = Append(@, DTable(b2.disktable_index, w.header))]
    ELSE b2

EmptyFailAfterMerge(merged, w, point) ==
    [base |-> EmptyFailBase(merged.base, w, point),
     disk |-> EmptyFailWrite(merged.disk, merged.base.disktable_index, w, point)]

EmptyMemtableFailure(b, d, point) ==
    IF point \in MergeCrashPoints
    THEN [base |-> BumpIndex(BumpIndex(b)),
          disk |-> MergeCrashDisk(BumpIndex(b), d, point)]
    ELSE EmptyFailAfterMerge(MergeIfFull(BumpIndex(b), d),
                             MTableWriteToWriter(b.memtable), point)

\* Base::empty_memtable, called directly, returning Err at `point`
EmptyMemtableFails(point) ==
    /\ up
    /\ base.disktable_index + 2 <= MaxIndex
    /\ IF point \in MergeCrashPoints
       THEN Len(base.disktables) + 1 > base.disktable_limit
       ELSE MergeIfFull(BumpIndex(base), disk).status = "Ok"
    /\ base' = EmptyMemtableFailure(base, disk, point).base
    /\ disk' = EmptyMemtableFailure(base, disk, point).disk
    /\ last' = Op("empty_memtable", 0, <<>>, <<>>, 0, EmptyFailError(point), <<>>, FALSE)
    /\ UNCHANGED <<up, acked, snap, nwrites, nrestarts, server>>

InitFlushFail == InitWith(LargeSizeLimit, DisktableLimit)

NextFlushFail ==
    \/ Writes(MaxWrites, {1, 2}, {<<MUpdate(1, nwrites + 1)>>}, {nwrites + 1})
    \/ Reads({1, 2}, {<<1>>}, {MaxTime})
    \/ Compactions
    \/ \E point \in EmptyFailPoints : EmptyMemtableFails(point)
    \/ Restart

SpecFlushFail == InitFlushFail /\ [][NextFlushFail]_vars

\* every value the selects `before` returned is returned by the selects `after`
Kept(before, after) ==
    \A k \in Keys, c \in ColLists :
        before[k][c].kind = "Data"
           => /\ after[k][c].kind = "Data"
              /\ \A i \in 1..Len(c) :
                    before[k][c].columns[i] # <<>>
                       => after[k][c].columns[i] = before[k][c].columns[i]

EmptyMemtableFailed ==
    StepOf("empty_memtable") /\ last'.res \in {"Problem", "CorruptedFiles"}

\* C37: when empty_memtable returns an error at any of its steps, every value
\* select returned before the call is returned by select after it, and a new
\* process started on the directory loads and returns it as well.
C37_FailedFlushLosesNothing ==
    [][EmptyMemtableFailed
         => /\ Kept(AllSelects(base, disk), AllSelects(base', disk'))
            /\ Load(Dead(base'), disk').status = "Ok"
            /\ Kept(AllSelects(base, disk),
                    AllSelects(Load(Dead(base'), disk').base, disk'))]_vars

\* ---- Base::merge_disktables returning an error ----

\* Base::merge_disktables, called directly, DTable::from_vec returning Err
\* after its output file is created or after its rows are copied: the index
\* is bumped, the list is not replaced
MergeDisktablesFails(point) ==
    /\ up
    /\ base.disktable_index + 1 <= MaxIndex
    /\ base' = BumpIndex(base)
    /\ disk' = MergeCrashDisk(base, disk, point)
    /\ last' = Op("merge_disktables", 0, <<>>, <<>>, 0, "CorruptedFiles", <<>>, FALSE)
    /\ UNCHANGED <<up, acked, snap, nwrites, nrestarts, server>>

\* SpecMerge: writes of two rows at increasing timestamps, compactions, and
\* major compactions that fail
InitMerge == InitWith(LargeSizeLimit, DisktableLimit)

NextMerge ==
    \/ Writes(MaxWrites, {1, 2}, {<<MUpdate(1, nwrites + 1)>>}, {nwrites + 1})
    \/ Reads({1, 2}, {<<1>>}, {MaxTime})
    \/ Compactions
    \/ \E point \in MergeCrashPoints : MergeDisktablesFails(point)

SpecMerge == InitMerge /\ [][NextMerge]_vars

\* C38: a call of merge_disktables leaves the commit log as it is; when it
\* returns, the Base differs from the one before at most in the disktable
\* list and disktable_index (the memtable is unchanged); and when it returns
\* an error the disktable list is unchanged as well.
C38_MergeFrame ==
    [][StepOf("merge_disktables")
         => /\ disk'.commit_log = disk.commit_log
            /\ last'.res # "Panic"
                 => [base' EXCEPT !.disktables = base.disktables,
                                  !.disktable_index = base.disktable_index] = base
            /\ last'.res \notin {"Ok", "Panic"}
                 => base'.disktables = base.disktables]_vars

\* a major compaction of two disktables returned an error while the memtable
\* held a row and the commit log its record
C38_Witness ==
    /\ up
    /\ last.op = "merge_disktables" /\ last.res = "CorruptedFiles"
    /\ Len(base.disktables) = 2
    /\ base.memtable # EmptyMap
    /\ disk.commit_log # <<>>

\* ---- the server with a memtable size limit that writes exceed ----

\* the queries of a handler here: an insert or an update of two columns of
\* row 1, which passes the small size limit
LargeQueries(h) ==
    {[kind |-> "insert", row |-> 1, updates |-> <<MUpdate(1, h), MUpdate(2, h)>>,
      cols |-> <<>>],
     [kind |-> "update", row |-> 1, updates |-> <<MUpdate(1, h), MUpdate(2, h)>>,
      cols |-> <<>>]}

\* self.database.lock().unwrap() on a mutex that a panic under the lock has
\* poisoned: the unwrap panics, the handler ends without a response
AcquirePoisoned(h) ==
    /\ ~up
    /\ Handler(h).pc = "parsed"
    /\ server' = Moved(h, "panicked")
    /\ UNCHANGED <<up, base, disk, last, acked, snap, nwrites, nrestarts>>

\* the handler has written its response and takes the next request
NextRequest(h) ==
    /\ Handler(h).pc = "done"
    /\ server.clock < MaxRequests
    /\ server' = Moved(h, "idle")
    /\ UNCHANGED <<up, base, disk, last, acked, snap, nwrites, nrestarts>>

HandlerStep(h) ==
    \/ \E q \in LargeQueries(h) : Receive(h, q)
    \/ Acquire(h)
    \/ AcquirePoisoned(h)
    \/ Apply(h)
    \/ CommitAndCheck(h)
    \/ Release(h)
    \/ NextRequest(h)

InitServerAuto == InitWith(SmallSizeLimit, DisktableLimit)

NextServerAuto == \E h \in Handlers : HandlerStep(h)

\* every handler keeps running, and a handler that waits for the mutex gets
\* it if it is free again and again
SpecServerAuto ==
    /\ InitServerAuto
    /\ [][NextServerAuto]_vars
    /\ \A h \in Handlers : WF_vars(HandlerStep(h)) /\ SF_vars(Acquire(h))

\* C39: under any interleaving of concurrent requests, every request the
\* server has parsed eventually receives its response: the lock is released
\* after every query and stays usable, also after a query that fails inside.
C39_EveryRequestAnswered ==
    \A h \in Handlers : (Handler(h).pc = "parsed") ~> (Handler(h).pc = "done")

\* ---------------------------------------------------------------------
\* The response record: QueryResult and its generated message form.

MaxColumns == 3     \* columns of a Data result
MaxBytes == 1       \* bytes of one column value

ByteValues == {0, 255}

ByteStrings == UNION {[1..n -> ByteValues] : n \in 0..MaxBytes}

\* Option<Vec<u8>>: None, or Some of a byte string (the empty one included).
NoData == [some |-> FALSE, data |-> <<>>]

SomeData(data) == [some |-> TRUE, data |-> data]

ColumnValues == {NoData} \cup {SomeData(d) : d \in ByteStrings}

StatusVariants ==
    {"Done", "RowNotFound", "RowAlreadyExists", "PartialCommit",
     "InternalError", "NotImplemented", "NetworkError"}

ResultValues ==
    {[variant |-> v, columns |-> <<>>] : v \in StatusVariants}
    \cup {[variant |-> "Data", columns |-> c] :
            c \in UNION {[1..n -> ColumnValues] : n \in 0..MaxColumns}}

\* generated::query::ResultColumn::new(): no flag, no data.
ResultColumnNew == [has_data |-> FALSE, data |-> <<>>]

\* generated::query::QueryResult::new(): no columns; the type field reads
\* as its first value until it is set.
QueryResultNew == [field_type |-> "OK", columns |-> <<>>]

\* A mistaken flag: has_data says whether the value holds any byte.
IntoGeneratedByLength(r) ==
    IF r.variant = "Data"
    THEN [QueryResultNew EXCEPT
            !.columns = [j \in 1..Len(r.columns) |->
                [ResultColumnNew EXCEPT
                    !.has_data = r.columns[j].some /\ r.columns[j].data # <<>>,
                    !.data = r.columns[j].data]],
            !.field_type = "DATA"]
    ELSE [QueryResultNew EXCEPT !.field_type = "OK"]

\* QueryResult::into_generated: one type tag per variant; a Data result
\* carries one ResultColumn per column, has_data set from is_some and the
\* data set only for Some.
IntoGenerated(r) ==
    CASE r.variant = "Done" -> [QueryResultNew EXCEPT !.field_type = "OK"]
      [] r.variant = "RowNotFound" ->
            [QueryResultNew EXCEPT !.field_type = "ROW_NOT_FOUND"]
      [] r.variant = "RowAlreadyExists" ->
            [QueryResultNew EXCEPT !.field_type = "ROW_ALREADY_EXISTS"]
      [] r.variant = "PartialCommit" ->
            [QueryResultNew EXCEPT !.field_type = "PARTIAL_COMMIT"]
      [] r.variant = "NotImplemented" ->
            [QueryResultNew EXCEPT !.field_type = "NOT_IMPLEMENTED"]
      [] r.variant = "NetworkError" ->
            [QueryResultNew EXCEPT !.field_type = "NETWORK_ERROR"]
      [] r.variant = "InternalError" ->
            [QueryResultNew EXCEPT !.field_type = "INTERNAL_ERROR"]
      [] r.variant = "Data" ->
            [QueryResultNew EXCEPT
                !.columns = [j \in 1..Len(r.columns) |->
                    IF r.columns[j].some
                    THEN [ResultColumnNew EXCEPT
                            !.has_data = TRUE, !.data = r.columns[j].data]
                    ELSE [ResultColumnNew EXCEPT !.has_data = FALSE]],
                !.field_type = "DATA"]

\* QueryResult::from_generated: the variant of the type tag; for DATA each
\* column is Some(data) when has_data is set and None otherwise.
FromGenerated(q) ==
    CASE q.field_type = "OK" -> [variant |-> "Done", columns |-> <<>>]
      [] q.field_type = "ROW_NOT_FOUND" ->
            [variant |-> "RowNotFound", columns |-> <<>>]
      [] q.field_type = "ROW_ALREADY_EXISTS" ->
            [variant |-> "RowAlreadyExists", columns |-> <<>>]
      [] q.field_type = "PARTIAL_COMMIT" ->
            [variant |-> "PartialCommit", columns |-> <<>>]
      [] q.field_type = "INTERNAL_ERROR" ->
            [variant |-> "InternalError", columns |-> <<>>]
      [] q.field_type = "NOT_IMPLEMENTED" ->
            [variant |-> "NotImplemented", columns |-> <<>>]
      [] q.field_type = "NETWORK_ERROR" ->
            [variant |-> "NetworkError", columns |-> <<>>]
      [] q.field_type = "DATA" ->
            [variant |-> "Data",
             columns |-> [j \in 1..Len(q.columns) |->
                IF q.columns[j].has_data
                THEN SomeData(q.columns[j].data)
                ELSE NoData]]

\* The server turns the result of a query into its message.
WriteResult(r) ==
    /\ up
    /\ last.op = "new"
    /\ last' = [op |-> "into_generated", result |-> r,
                message |-> IntoGenerated(r)]
    /\ UNCHANGED <<up, base, disk, acked, snap, nwrites, nrestarts, server>>

\* The client turns the message it received back into a result.
ReadResult ==
    /\ up
    /\ last.op = "into_generated"
    /\ last' = [op |-> "from_generated", result |-> last.result,
                message |-> last.message,
                recovered |-> FromGenerated(last.message)]
    /\ UNCHANGED <<up, base, disk, acked, snap, nwrites, nrestarts, server>>

InitResult == InitWith(LargeSizeLimit, DisktableLimit)

NextResult ==
    \/ \E r \in ResultValues : WriteResult(r)
    \/ ReadResult

SpecResult == InitResult /\ [][NextResult]_vars

\* C40: a QueryResult turned into its message and back is the same value:
\* the same variant, the same number of columns in the same order, None
\* still None and Some of no bytes still Some of no bytes.
C40_ResultRoundTrip ==
    last.op = "from_generated" =>
        /\ last.recovered = last.result
        /\ last.recovered.variant = last.result.variant
        /\ Len(last.recovered.columns) = Len(last.result.columns)

C40_Witness ==
    /\ last.op = "from_generated"
    /\ last.result = [variant |-> "Data",
                      columns |-> <<NoData, SomeData(<<>>), SomeData(<<255>>)>>]
    /\ last.recovered = last.result

====
